---------------------------- MODULE Spec2Model ----------------------------
(***************************************************************************)
(* Model of the portfolio site's content renderer                          *)
(* (static/js/content-manager.js): the content loader, the styled-text     *)
(* renderer applyStyleToText, the six section renderers and the            *)
(* orchestrator init with its DOMContentLoaded listener; and of its         *)
(* collaborators: the map-key configuration loader AzureMapsConfig, the    *)
(* map integration AzureMapsIntegration and the language statistics        *)
(* script's fetchLanguageData.                                             *)
(*                                                                         *)
(* JavaScript values are represented as follows.                           *)
(*   - a string is a sequence of one-character strings;                    *)
(*   - the value undefined, where a string is expected, is UndefinedStr;   *)
(*   - an object is a record; a missing property is a missing field;       *)
(*   - null and undefined, where an object is expected, are the records    *)
(*     Null and Undefined;                                                 *)
(*   - a DOM text node is [tag |-> "#text", data |-> s], an element is     *)
(*     [tag, className, display, href, target, rel, kids] with kids the    *)
(*     sequence of its children.                                           *)
(***************************************************************************)
EXTENDS Naturals, Sequences, FiniteSets, TLC

VARIABLES
    pc,            \* position of the page load (see the orchestrator below)
    page,          \* the selectors that resolve to an element of the page
    dom,           \* per selector: the children of the element it resolves to
    written,       \* selectors whose element has been written to by a renderer
    contentData,   \* ContentManager.contentData
    stylingRules,  \* ContentManager.stylingRules
    loadResult,    \* what loadContentData returned ("none" before it returns)
    invoked,       \* section renderers called so far in this page load
    reported,      \* console.error conditions reported by the renderers
    uncaught,      \* the timer callback ended by an uncaught exception
    fetches,       \* number of fetch() calls issued
    styleBox,      \* the container handed to applyStyleToText (standalone use)
    styleIn,       \* the text handed to the last applyStyleToText call
    styleThrew,    \* the last applyStyleToText call raised a TypeError
    env,           \* what the map scripts read: ENV_CONFIG, the page, the host
    config,        \* an AzureMapsConfig instance and the outcome of its last call
    integration,   \* the AzureMapsIntegration instance and its initialize() call
    generator      \* a fetchLanguageData call of LanguageDataGenerator

vars == <<pc, page, dom, written, contentData, stylingRules, loadResult, invoked,
          reported, uncaught, fetches, styleBox, styleIn, styleThrew,
          env, config, integration, generator>>

orchVars == <<pc, page, dom, written, contentData, loadResult, invoked, reported,
              uncaught, fetches>>

styleVars == <<styleBox, styleIn, styleThrew>>

\* the state of the collaborating scripts
sideVars == <<env, config, integration, generator>>

\* the content renderer's own state
contentVars == <<orchVars, stylingRules, styleVars>>

\* the value of a collaborator's variable on a page that does not load it
NotLoaded == [script |-> "not loaded"]

SideIdle ==
    /\ env = NotLoaded
    /\ config = NotLoaded
    /\ integration = NotLoaded
    /\ generator = NotLoaded

----------------------------------------------------------------------------
(* Bounds of the model *)

\* longest input string handed to applyStyleToText in StyleSpec
MaxLen == 3

\* how many sections of the served document may deviate from the base document
MaxDeviations == 1

\* how many mount points may be missing from the page
MaxMissing == 2

----------------------------------------------------------------------------
(* JavaScript values *)

Null == [jsnull |-> TRUE]

Undefined == [jsundefined |-> TRUE]

UndefinedStr == <<"undefined">>

\* String(v) for a string or undefined: what createTextNode / textContent /
\* a template literal make of the value
ToStr(v) ==
    IF v = UndefinedStr THEN <<"u", "n", "d", "e", "f", "i", "n", "e", "d">> ELSE v

\* the property f of object o (undefined when missing), for string properties
GetStr(o, f) == IF f \in DOMAIN o THEN o[f] ELSE UndefinedStr

Truthy(v) == v # Null /\ v # Undefined

RECURSIVE Concat(_)
Concat(ss) == IF ss = <<>> THEN <<>> ELSE Head(ss) \o Concat(Tail(ss))

----------------------------------------------------------------------------
(* DOM nodes *)

TextNode(s) == [tag |-> "#text", data |-> ToStr(s)]

CreateElement(tag) ==
    [tag |-> tag, className |-> "", display |-> "", href |-> <<>>,
     target |-> "", rel |-> "", kids |-> <<>>]

\* el.textContent = s : replaces the children by one text node, none for ""
SetTextContent(el, s) ==
    [el EXCEPT !.kids = IF ToStr(s) = <<>> THEN <<>> ELSE <<TextNode(s)>>]

AppendChild(el, child) == [el EXCEPT !.kids = Append(@, child)]

\* el.innerHTML = ''
ClearChildren(el) == [el EXCEPT !.kids = <<>>]

IsText(n) == n.tag = "#text"

\* the text a node shows: its data, or the concatenation of its descendants'
RECURSIVE NodeText(_)
NodeText(n) ==
    IF IsText(n) THEN n.data
    ELSE Concat([i \in 1..Len(n.kids) |-> NodeText(n.kids[i])])

----------------------------------------------------------------------------
(* Styling rules: this.stylingRules?.firstLetterRule?.enabled and friends *)

\* the class names the served styling rules carry
FirstLetterClass == "first-letter"
PunctuationClass == "punctuation-highlight"

HasRule(rules, name) == Truthy(rules) /\ name \in DOMAIN rules

FirstLetterEnabled(rules) ==
    HasRule(rules, "firstLetterRule") /\ rules.firstLetterRule.enabled

PunctuationEnabled(rules) ==
    HasRule(rules, "punctuationRule") /\ rules.punctuationRule.enabled

\* text.slice(from, to) with 0-based indices, 0 <= from <= to <= length
Slice(text, from, to) == SubSeq(text, from + 1, to)

----------------------------------------------------------------------------
(* applyStyleToText(text, container)                                        *)

\* FirstLetterStep with "currentText = restOfText" forgotten
FirstLetterStep_KeepsChar(text, container, rules) ==
    IF FirstLetterEnabled(rules)
    THEN IF text = UndefinedStr
         THEN [container |-> container, currentText |-> text, threw |-> TRUE]
         ELSE LET firstChar == Slice(text, 0, IF Len(text) > 0 THEN 1 ELSE 0)
                  firstLetterSpan ==
                      SetTextContent(
                          [CreateElement("span") EXCEPT
                              !.className = rules.firstLetterRule.className],
                          firstChar)
              IN [container |-> AppendChild(container, firstLetterSpan),
                  currentText |-> text,
                  threw |-> FALSE]
    ELSE [container |-> container, currentText |-> text, threw |-> FALSE]

\* FirstLetterStep with the rule's class name assigned to the container
\* instead of the new span
FirstLetterStep_StylesContainer(text, container, rules) ==
    IF FirstLetterEnabled(rules)
    THEN IF text = UndefinedStr
         THEN [container |-> container, currentText |-> text, threw |-> TRUE]
         ELSE LET firstChar == Slice(text, 0, IF Len(text) > 0 THEN 1 ELSE 0)
                  restOfText == Slice(text, IF Len(text) > 0 THEN 1 ELSE 0, Len(text))
                  firstLetterSpan == SetTextContent(CreateElement("span"), firstChar)
              IN [container |->
                      AppendChild([container EXCEPT
                                      !.className = rules.firstLetterRule.className],
                                  firstLetterSpan),
                  currentText |-> restOfText,
                  threw |-> FALSE]
    ELSE [container |-> container, currentText |-> text, threw |-> FALSE]

\* the first-letter step: yields the container, the working text left and
\* whether charAt was called on undefined (a TypeError)
FirstLetterStep(text, container, rules) ==
    IF FirstLetterEnabled(rules)
    THEN IF text = UndefinedStr
         THEN [container |-> container, currentText |-> text, threw |-> TRUE]
         ELSE LET firstChar == Slice(text, 0, IF Len(text) > 0 THEN 1 ELSE 0)
                  restOfText == Slice(text, IF Len(text) > 0 THEN 1 ELSE 0, Len(text))
                  firstLetterSpan ==
                      SetTextContent(
                          [CreateElement("span") EXCEPT
                              !.className = rules.firstLetterRule.className],
                          firstChar)
              IN [container |-> AppendChild(container, firstLetterSpan),
                  currentText |-> restOfText,
                  threw |-> FALSE]
    ELSE [container |-> container, currentText |-> text, threw |-> FALSE]

\* the for loop over currentText, from index i with run start lastIndex
RECURSIVE PunctuationLoop(_, _, _, _, _)
PunctuationLoop(currentText, i, lastIndex, container, rule) ==
    IF i >= Len(currentText)
    THEN [container |-> container, lastIndex |-> lastIndex]
    ELSE LET char == currentText[i + 1]
         IN IF char \in rule.characters
            THEN LET withRun ==
                         IF i > lastIndex
                         THEN AppendChild(container,
                                          TextNode(Slice(currentText, lastIndex, i)))
                         ELSE container
                     punctSpan ==
                         SetTextContent(
                             [CreateElement("span") EXCEPT !.className = rule.className],
                             <<char>>)
                 IN PunctuationLoop(currentText, i + 1, i + 1,
                                    AppendChild(withRun, punctSpan), rule)
            ELSE PunctuationLoop(currentText, i + 1, lastIndex, container, rule)

\* PunctuationStep without the "lastIndex < currentText.length" guard: the
\* trailing run is appended even when it is empty
PunctuationStep_EmptyTail(currentText, container, rules) ==
    IF PunctuationEnabled(rules)
    THEN IF currentText = UndefinedStr
         THEN [container |-> container, threw |-> TRUE]
         ELSE LET scanned == PunctuationLoop(currentText, 0, 0, container,
                                             rules.punctuationRule)
              IN [container |->
                      AppendChild(scanned.container,
                                  TextNode(Slice(currentText, scanned.lastIndex,
                                                 Len(currentText)))),
                  threw |-> FALSE]
    ELSE [container |-> AppendChild(container, TextNode(currentText)),
          threw |-> FALSE]

\* PunctuationStep with the "Add remaining text" block forgotten
PunctuationStep_DropsTail(currentText, container, rules) ==
    IF PunctuationEnabled(rules)
    THEN IF currentText = UndefinedStr
         THEN [container |-> container, threw |-> TRUE]
         ELSE [container |->
                   PunctuationLoop(currentText, 0, 0, container,
                                   rules.punctuationRule).container,
               threw |-> FALSE]
    ELSE [container |-> AppendChild(container, TextNode(currentText)),
          threw |-> FALSE]

\* the punctuation step on the working text
PunctuationStep(currentText, container, rules) ==
    IF PunctuationEnabled(rules)
    THEN IF currentText = UndefinedStr
         THEN [container |-> container, threw |-> TRUE]
         ELSE LET scanned == PunctuationLoop(currentText, 0, 0, container,
                                             rules.punctuationRule)
              IN [container |->
                      IF scanned.lastIndex < Len(currentText)
                      THEN AppendChild(scanned.container,
                                       TextNode(Slice(currentText, scanned.lastIndex,
                                                      Len(currentText))))
                      ELSE scanned.container,
                  threw |-> FALSE]
    ELSE [container |-> AppendChild(container, TextNode(currentText)),
          threw |-> FALSE]

\* applyStyleToText without its "container.innerHTML = ''"
ApplyStyleToText_NoClear(text, container, rules) ==
    LET first == FirstLetterStep(text, container, rules)
    IN IF first.threw
       THEN [container |-> first.container, threw |-> TRUE]
       ELSE PunctuationStep(first.currentText, first.container, rules)

\* the whole call: the container as it is left, and whether a TypeError was
\* raised (the container is cleared before anything can throw)
ApplyStyleToText(text, container, rules) ==
    LET first == FirstLetterStep(text, ClearChildren(container), rules)
    IN IF first.threw
       THEN [container |-> first.container, threw |-> TRUE]
       ELSE PunctuationStep(first.currentText, first.container, rules)

----------------------------------------------------------------------------
(* The page: the selectors the renderers query, and the elements behind them *)

WhoAmISel == "#who-am-i-content"
WhoAmIFallbackSel == ".col-md-7.animated.fadeInUp"
PersonalInfoSel == ".info-list, #personal-info-content"
KnowHowLeftSel == "#knowhow-left"
KnowHowRightSel == "#knowhow-right"
ShowcaseSel == "#showcase-content"
ExperienceSel == "#experience-content"
EducationSel == "#education-content"

Selectors ==
    {WhoAmISel, WhoAmIFallbackSel, PersonalInfoSel, KnowHowLeftSel,
     KnowHowRightSel, ShowcaseSel, ExperienceSel, EducationSel}

\* what a mount point holds in the served HTML before any script runs
Placeholder == TextNode(<<"~">>)

InitialElement == AppendChild(CreateElement("div"), Placeholder)

InitialDom == [sel \in Selectors |-> InitialElement.kids]

\* styleIn before any standalone call of applyStyleToText
NoText == <<"no call yet">>

\* the state right after "new ContentManager()" on a page with every mount point
ConstructedOn(p) ==
    /\ page = p
    /\ dom = InitialDom
    /\ written = {}
    /\ contentData = Null
    /\ loadResult = "none"
    /\ invoked = <<>>
    /\ reported = {}
    /\ uncaught = FALSE
    /\ fetches = 0

----------------------------------------------------------------------------
(* What a renderer leaves behind: the page's children per selector, the     *)
(* selectors written to, the conditions reported on the console, and        *)
(* whether it ended by an uncaught TypeError.                                *)

Report(R, msg) == [R EXCEPT !.reported = @ \cup {msg}]

\* container.innerHTML = '' on the mount point behind sel
ClearMount(R, sel) == [R EXCEPT !.dom[sel] = <<>>, !.written = @ \cup {sel}]

\* container.appendChild(node) on the mount point behind sel
AppendMount(R, sel, node) ==
    [R EXCEPT !.dom[sel] = Append(@, node), !.written = @ \cup {sel}]

Throw(R) == [R EXCEPT !.threw = TRUE]

\* this.contentData?.<key> is truthy (an object or an array, also an empty one)
HasSection(data, key) == Truthy(data) /\ key \in DOMAIN data

\* a string property that is present and not the empty string
TruthyStr(o, f) == f \in DOMAIN o /\ o[f] # <<>>

NoElement == "null"

\* document.querySelector(sel)
QuerySelector(pg, sel) == IF sel \in pg THEN sel ELSE NoElement

----------------------------------------------------------------------------
(* renderWhoAmISection *)

\* the lines with a line break before every line, the first included,
\* instead of after every line but the last
RECURSIVE WhoAmILines_LeadingBreak(_, _, _, _, _)
WhoAmILines_LeadingBreak(R, sel, content, index, rules) ==
    IF index >= Len(content)
    THEN R
    ELSE LET lineDiv == [CreateElement("div") EXCEPT !.display = "inline"]
             styled == ApplyStyleToText(content[index + 1], lineDiv, rules)
         IN IF styled.threw
            THEN Throw(R)
            ELSE WhoAmILines_LeadingBreak(
                     AppendMount(AppendMount(R, sel, CreateElement("br")),
                                 sel, styled.container),
                     sel, content, index + 1, rules)

\* content.forEach((text, index) => ...), from index on
RECURSIVE WhoAmILines(_, _, _, _, _)
WhoAmILines(R, sel, content, index, rules) ==
    IF index >= Len(content)
    THEN R
    ELSE LET lineDiv == [CreateElement("div") EXCEPT !.display = "inline"]
             styled == ApplyStyleToText(content[index + 1], lineDiv, rules)
         IN IF styled.threw
            THEN Throw(R)
            ELSE LET withLine == AppendMount(R, sel, styled.container)
                     withBreak ==
                         IF index < Len(content) - 1
                         THEN AppendMount(withLine, sel, CreateElement("br"))
                         ELSE withLine
                 IN WhoAmILines(withBreak, sel, content, index + 1, rules)

RenderWhoAmISection(R, data, rules, pg) ==
    IF ~HasSection(data, "whoAmI")
    THEN Report(R, "No whoAmI data found")
    ELSE LET first == QuerySelector(pg, WhoAmISel)
             container ==
                 IF first = NoElement THEN QuerySelector(pg, WhoAmIFallbackSel)
                 ELSE first
         IN IF container = NoElement
            THEN Report(R, "Who Am I container not found")
            ELSE LET cleared == ClearMount(R, container)
                 IN IF "content" \notin DOMAIN data.whoAmI
                    THEN Throw(cleared)
                    ELSE WhoAmILines(cleared, container, data.whoAmI.content, 0, rules)

----------------------------------------------------------------------------
(* renderPersonalInfoSection *)

LegalNameLabel == <<"L", "e", "g", "a", "l", " ", "N", "a", "m", "e">>
PreferredNameLabel == <<"P", "r", "e", "f", "e", "r", "r", "e", "d", " ", "N", "a", "m", "e">>
DateOfBirthLabel == <<"D", "a", "t", "e", " ", "o", "f", " ", "b", "i", "r", "t", "h">>
EmailLabel == <<"E", "m", "a", "i", "l">>
PhoneLabel == <<"P", "h", "o", "n", "e">>
LabelSuffix == <<" ", ":", " ">>
MailtoScheme == <<"m", "a", "i", "l", "t", "o", ":">>
TelScheme == <<"t", "e", "l", ":">>

\* the characters matched by /[\s.-]/
PhoneSeparators == {" ", "\t", "\n", "\r", ".", "-"}

\* phone.replace(/[\s.-]/g, '')
CleanPhone(phone) == SelectSeq(phone, LAMBDA c : c \notin PhoneSeparators)

\* one "<li><strong>Label : </strong>value</li>" item
InfoItem(label, value, isEmail) ==
    LET strong == SetTextContent(CreateElement("strong"), label \o LabelSuffix)
        li == AppendChild(CreateElement("li"), strong)
    IN IF isEmail
       THEN AppendChild(li,
                SetTextContent(
                    [CreateElement("a") EXCEPT !.href = MailtoScheme \o ToStr(value)],
                    value))
       ELSE AppendChild(li, TextNode(value))

\* the phone links with a separator after every link, the last one included
RECURSIVE PhoneLinks_TrailingSeparator(_, _, _, _)
PhoneLinks_TrailingSeparator(phoneLi, phones, index, rules) ==
    IF index >= Len(phones)
    THEN phoneLi
    ELSE LET phone == phones[index + 1]
             phoneDiv ==
                 ApplyStyleToText(phone,
                                  [CreateElement("div") EXCEPT !.display = "inline"],
                                  rules).container
             phoneLink ==
                 AppendChild(
                     [CreateElement("a") EXCEPT !.href = TelScheme \o CleanPhone(phone)],
                     phoneDiv)
             separator ==
                 SetTextContent(
                     [CreateElement("span") EXCEPT !.className = "punctuation-highlight"],
                     <<"/">>)
         IN PhoneLinks_TrailingSeparator(
                AppendChild(AppendChild(phoneLi, phoneLink), separator),
                phones, index + 1, rules)

\* info.phones.forEach((phone, index) => ...), from index on, building phoneLi
RECURSIVE PhoneLinks(_, _, _, _)
PhoneLinks(phoneLi, phones, index, rules) ==
    IF index >= Len(phones)
    THEN phoneLi
    ELSE LET phone == phones[index + 1]
             phoneDiv ==
                 ApplyStyleToText(phone,
                                  [CreateElement("div") EXCEPT !.display = "inline"],
                                  rules).container
             phoneLink ==
                 AppendChild(
                     [CreateElement("a") EXCEPT !.href = TelScheme \o CleanPhone(phone)],
                     phoneDiv)
             withLink == AppendChild(phoneLi, phoneLink)
             separator ==
                 SetTextContent(
                     [CreateElement("span") EXCEPT !.className = "punctuation-highlight"],
                     <<"/">>)
         IN PhoneLinks(IF index < Len(phones) - 1
                       THEN AppendChild(withLink, separator)
                       ELSE withLink,
                       phones, index + 1, rules)

RenderPersonalInfoSection(R, data, rules, pg) ==
    IF ~HasSection(data, "personalInfo")
    THEN Report(R, "No personalInfo data found")
    ELSE LET container == QuerySelector(pg, PersonalInfoSel)
         IN IF container = NoElement
            THEN Report(R, "Personal Info container not found")
            ELSE LET info == data.personalInfo
                     cleared == ClearMount(R, container)
                     a1 == AppendMount(cleared, container,
                               InfoItem(LegalNameLabel, GetStr(info, "legalName"), FALSE))
                     a2 == AppendMount(a1, container,
                               InfoItem(PreferredNameLabel, GetStr(info, "preferredName"), FALSE))
                     a3 == AppendMount(a2, container,
                               InfoItem(DateOfBirthLabel, GetStr(info, "dateOfBirth"), FALSE))
                     a4 == AppendMount(a3, container,
                               InfoItem(EmailLabel, GetStr(info, "email"), TRUE))
                 IN IF "phones" \in DOMAIN info /\ Len(info.phones) > 0
                    THEN LET phoneStrong ==
                                 SetTextContent(CreateElement("strong"),
                                                PhoneLabel \o LabelSuffix)
                             phoneLi == AppendChild(CreateElement("li"), phoneStrong)
                         IN AppendMount(a4, container,
                                        PhoneLinks(phoneLi, info.phones, 0, rules))
                    ELSE a4

----------------------------------------------------------------------------
(* renderKnowHowSection *)

\* Math.floor(n / 2) in place of Math.ceil(n / 2)
CeilHalf_Floor(n) == n \div 2

\* Math.ceil(n / 2)
CeilHalf(n) == (n + 1) \div 2

\* the items written with "li.innerHTML = item": an item holding "<" is read
\* as markup and leaves an element in place of its text
RECURSIVE KnowHowItems_InnerHTML(_, _, _, _)
KnowHowItems_InnerHTML(R, sel, column, i) ==
    IF i > Len(column)
    THEN R
    ELSE KnowHowItems_InnerHTML(
             AppendMount(R, sel,
                 IF \E j \in DOMAIN column[i] : column[i][j] = "<"
                 THEN AppendChild(CreateElement("li"), CreateElement("b"))
                 ELSE SetTextContent(CreateElement("li"), column[i])),
             sel, column, i + 1)

\* column.forEach(item => ...) : one <li> per item, from position i on
RECURSIVE KnowHowItems(_, _, _, _)
KnowHowItems(R, sel, column, i) ==
    IF i > Len(column)
    THEN R
    ELSE KnowHowItems(
             AppendMount(R, sel, SetTextContent(CreateElement("li"), column[i])),
             sel, column, i + 1)

\* renderKnowHowSection checking and clearing the left container before it
\* looks at the right one
RenderKnowHowSection_ClearsLeftFirst(R, data, rules, pg) ==
    IF ~HasSection(data, "knowHow")
    THEN Report(R, "No knowHow data found")
    ELSE LET leftContainer == QuerySelector(pg, KnowHowLeftSel)
             rightContainer == QuerySelector(pg, KnowHowRightSel)
         IN IF leftContainer = NoElement
            THEN Report(R, "Know-How containers not found")
            ELSE IF rightContainer = NoElement
                 THEN Report(ClearMount(R, leftContainer), "Know-How containers not found")
                 ELSE LET knowHow == data.knowHow
                          midPoint == CeilHalf(Len(knowHow))
                          leftColumn == Slice(knowHow, 0, midPoint)
                          rightColumn == Slice(knowHow, midPoint, Len(knowHow))
                          cleared == ClearMount(ClearMount(R, leftContainer), rightContainer)
                      IN KnowHowItems(KnowHowItems(cleared, leftContainer, leftColumn, 1),
                                      rightContainer, rightColumn, 1)

RenderKnowHowSection(R, data, rules, pg) ==
    IF ~HasSection(data, "knowHow")
    THEN Report(R, "No knowHow data found")
    ELSE LET leftContainer == QuerySelector(pg, KnowHowLeftSel)
             rightContainer == QuerySelector(pg, KnowHowRightSel)
         IN IF leftContainer = NoElement \/ rightContainer = NoElement
            THEN Report(R, "Know-How containers not found")
            ELSE LET knowHow == data.knowHow
                     midPoint == CeilHalf(Len(knowHow))
                     leftColumn == Slice(knowHow, 0, midPoint)
                     rightColumn == Slice(knowHow, midPoint, Len(knowHow))
                     cleared == ClearMount(ClearMount(R, leftContainer), rightContainer)
                 IN KnowHowItems(KnowHowItems(cleared, leftContainer, leftColumn, 1),
                                 rightContainer, rightColumn, 1)

----------------------------------------------------------------------------
(* renderShowcaseSection, renderExperienceSection *)

\* details.forEach(detail => ...) of both renderers: one styled <li> per
\* detail appended to ul, from index on
RECURSIVE DetailItems(_, _, _, _)
DetailItems(ul, details, index, rules) ==
    IF index >= Len(details)
    THEN [container |-> ul, threw |-> FALSE]
    ELSE LET styled == ApplyStyleToText(details[index + 1], CreateElement("li"), rules)
         IN IF styled.threw
            THEN [container |-> ul, threw |-> TRUE]
            ELSE DetailItems(AppendChild(ul, styled.container), details, index + 1, rules)

\* the <p><ul>...</ul></p> block of an entry; entry.details.forEach raises a
\* TypeError when the entry has no details
DetailsBlock(entry, rules) ==
    IF "details" \notin DOMAIN entry
    THEN [container |-> CreateElement("p"), threw |-> TRUE]
    ELSE LET items == DetailItems(CreateElement("ul"), entry.details, 0, rules)
         IN [container |-> AppendChild(CreateElement("p"), items.container),
             threw |-> items.threw]

\* a new-tab link showing text
BlankLink(url, text) ==
    SetTextContent(
        [CreateElement("a") EXCEPT
            !.href = ToStr(url), !.target = "_blank", !.rel = "noopener"],
        text)

PunctuationSpan(text) ==
    SetTextContent(
        [CreateElement("span") EXCEPT !.className = "punctuation-highlight"], text)

\* this.contentData.showcase.forEach(project => ...), from position i on
RECURSIVE ShowcaseEntries(_, _, _, _, _)
ShowcaseEntries(R, sel, showcase, i, rules) ==
    IF i > Len(showcase)
    THEN R
    ELSE LET project == showcase[i]
             projectLink == BlankLink(GetStr(project, "url"), GetStr(project, "title"))
             h4 == AppendChild(
                       AppendChild(AppendChild(CreateElement("h4"), projectLink),
                                   PunctuationSpan(<<":">>)),
                       TextNode(<<" ">> \o ToStr(GetStr(project, "description"))))
             hgroup == AppendChild([CreateElement("div") EXCEPT !.className = "hgroup"], h4)
             expDiv ==
                 AppendChild(
                     [CreateElement("div") EXCEPT !.className = "exp animated fadeInUp"],
                     hgroup)
             details == DetailsBlock(project, rules)
         IN IF details.threw
            THEN Throw(R)
            ELSE ShowcaseEntries(
                     AppendMount(R, sel, AppendChild(expDiv, details.container)),
                     sel, showcase, i + 1, rules)

\* renderShowcaseSection without its "No showcase data found" guard: forEach
\* is called on undefined after the container was cleared
RenderShowcaseSection_NoDataGuard(R, data, rules, pg) ==
    LET container == QuerySelector(pg, ShowcaseSel)
    IN IF container = NoElement
       THEN Report(R, "Showcase container not found")
       ELSE IF ~HasSection(data, "showcase")
            THEN Throw(ClearMount(R, container))
            ELSE ShowcaseEntries(ClearMount(R, container), container,
                                 data.showcase, 1, rules)

\* renderShowcaseSection without its "container.innerHTML = ''"
RenderShowcaseSection_NoClear(R, data, rules, pg) ==
    IF ~HasSection(data, "showcase")
    THEN Report(R, "No showcase data found")
    ELSE LET container == QuerySelector(pg, ShowcaseSel)
         IN IF container = NoElement
            THEN Report(R, "Showcase container not found")
            ELSE ShowcaseEntries(R, container, data.showcase, 1, rules)

RenderShowcaseSection(R, data, rules, pg) ==
    IF ~HasSection(data, "showcase")
    THEN Report(R, "No showcase data found")
    ELSE LET container == QuerySelector(pg, ShowcaseSel)
         IN IF container = NoElement
            THEN Report(R, "Showcase container not found")
            ELSE ShowcaseEntries(ClearMount(R, container), container,
                                 data.showcase, 1, rules)

\* the <h5> holding the period run through applyStyleToText
PeriodHeading(entry, rules) ==
    LET styled ==
            ApplyStyleToText(GetStr(entry, "period"),
                             [CreateElement("div") EXCEPT !.display = "inline"], rules)
    IN [container |-> AppendChild(CreateElement("h5"), styled.container),
        threw |-> styled.threw]

\* this.contentData.experience.forEach(exp => ...), from position i on
RECURSIVE ExperienceEntries(_, _, _, _, _)
ExperienceEntries(R, sel, experience, i, rules) ==
    IF i > Len(experience)
    THEN R
    ELSE LET exp == experience[i]
             h4 == SetTextContent(CreateElement("h4"), GetStr(exp, "title"))
             h5 == PeriodHeading(exp, rules)
             hgroup ==
                 AppendChild(
                     AppendChild([CreateElement("div") EXCEPT !.className = "hgroup"], h4),
                     h5.container)
             expDiv ==
                 AppendChild(
                     [CreateElement("div") EXCEPT !.className = "exp animated fadeInUp"],
                     hgroup)
             details == DetailsBlock(exp, rules)
         IN IF h5.threw \/ details.threw
            THEN Throw(R)
            ELSE ExperienceEntries(
                     AppendMount(R, sel, AppendChild(expDiv, details.container)),
                     sel, experience, i + 1, rules)

RenderExperienceSection(R, data, rules, pg) ==
    IF ~HasSection(data, "experience")
    THEN Report(R, "No experience data found")
    ELSE LET container == QuerySelector(pg, ExperienceSel)
         IN IF container = NoElement
            THEN Report(R, "Experience container not found")
            ELSE ExperienceEntries(ClearMount(R, container), container,
                                   data.experience, 1, rules)

----------------------------------------------------------------------------
(* renderEducationSection *)

\* the character U+2013 (the module's text is ASCII)
EnDash == "EN DASH"

InstitutionSeparator == <<" ", "&", " ">>

IsPrefix(p, s) == Len(p) <= Len(s) /\ SubSeq(s, 1, Len(p)) = p

\* s.split(sep) for a non-empty separator: cur is the part being read
RECURSIVE SplitFrom(_, _, _)
SplitFrom(s, sep, cur) ==
    IF s = <<>> THEN <<cur>>
    ELSE IF IsPrefix(sep, s)
         THEN <<cur>> \o SplitFrom(SubSeq(s, Len(sep) + 1, Len(s)), sep, <<>>)
         ELSE SplitFrom(Tail(s), sep, Append(cur, Head(s)))

Split(s, sep) == SplitFrom(s, sep, <<>>)

\* the institution links with the first URL on both links of a pair
InstitutionLinks_SameUrl(h4, edu) ==
    IF TruthyStr(edu, "institutionUrl2")
    THEN LET institutions == Split(edu.institution, InstitutionSeparator)
         IN IF Len(institutions) = 2
            THEN AppendChild(
                     AppendChild(
                         AppendChild(h4, BlankLink(GetStr(edu, "institutionUrl"),
                                                   institutions[1])),
                         PunctuationSpan(InstitutionSeparator)),
                     BlankLink(GetStr(edu, "institutionUrl"), institutions[2]))
            ELSE h4
    ELSE AppendChild(h4, BlankLink(GetStr(edu, "institutionUrl"),
                                   GetStr(edu, "institution")))

\* the institution link(s) appended to the heading h4 of entry edu
InstitutionLinks(h4, edu) ==
    IF TruthyStr(edu, "institutionUrl2")
    THEN LET institutions == Split(edu.institution, InstitutionSeparator)
         IN IF Len(institutions) = 2
            THEN AppendChild(
                     AppendChild(
                         AppendChild(h4, BlankLink(GetStr(edu, "institutionUrl"),
                                                   institutions[1])),
                         PunctuationSpan(InstitutionSeparator)),
                     BlankLink(edu.institutionUrl2, institutions[2]))
            ELSE h4
    ELSE AppendChild(h4, BlankLink(GetStr(edu, "institutionUrl"),
                                   GetStr(edu, "institution")))

\* this.contentData.education.forEach(edu => ...), from position i on
RECURSIVE EducationEntries(_, _, _, _, _)
EducationEntries(R, sel, education, i, rules) ==
    IF i > Len(education)
    THEN R
    ELSE LET edu == education[i]
             titled == SetTextContent(CreateElement("h4"),
                                      ToStr(GetStr(edu, "degree")) \o <<" ">>)
             dashed == AppendChild(AppendChild(titled, PunctuationSpan(<<EnDash>>)),
                                   TextNode(<<" ">>))
             h4 == InstitutionLinks(dashed, edu)
             h5 == PeriodHeading(edu, rules)
             hgroup ==
                 AppendChild(
                     AppendChild([CreateElement("div") EXCEPT !.className = "hgroup"], h4),
                     h5.container)
             expDiv ==
                 AppendChild(
                     [CreateElement("div") EXCEPT !.className = "exp animated fadeInUp"],
                     hgroup)
         IN IF h5.threw
            THEN Throw(R)
            ELSE EducationEntries(AppendMount(R, sel, expDiv), sel, education, i + 1, rules)

RenderEducationSection(R, data, rules, pg) ==
    IF ~HasSection(data, "education")
    THEN Report(R, "No education data found")
    ELSE LET container == QuerySelector(pg, EducationSel)
         IN IF container = NoElement
            THEN Report(R, "Education container not found")
            ELSE EducationEntries(ClearMount(R, container), container,
                                  data.education, 1, rules)

----------------------------------------------------------------------------
(* The callback init hands to setTimeout: the six renderers, one after the   *)
(* other, in one task; an exception leaves the callback at once.             *)

SectionKeys ==
    <<"whoAmI", "personalInfo", "knowHow", "showcase", "experience", "education">>

SectionNames == {SectionKeys[i] : i \in 1..Len(SectionKeys)}

RenderSection(name, R, data, rules, pg) ==
    CASE name = "whoAmI" -> RenderWhoAmISection(R, data, rules, pg)
      [] name = "personalInfo" -> RenderPersonalInfoSection(R, data, rules, pg)
      [] name = "knowHow" -> RenderKnowHowSection(R, data, rules, pg)
      [] name = "showcase" -> RenderShowcaseSection(R, data, rules, pg)
      [] name = "experience" -> RenderExperienceSection(R, data, rules, pg)
      [] name = "education" -> RenderEducationSection(R, data, rules, pg)

\* the statements of the callback from the i-th on; run.calls lists the
\* renderers called so far
RECURSIVE RenderFrom(_, _, _, _, _)
RenderFrom(i, run, data, rules, pg) ==
    IF i > Len(SectionKeys) \/ run.R.threw
    THEN run
    ELSE RenderFrom(i + 1,
                    [R |-> RenderSection(SectionKeys[i], run.R, data, rules, pg),
                     calls |-> Append(run.calls, SectionKeys[i])],
                    data, rules, pg)

TimerCallback(R, data, rules, pg) ==
    RenderFrom(1, [R |-> R, calls |-> <<>>], data, rules, pg)

----------------------------------------------------------------------------
(* The documents the server may answer with: the base document, with up to  *)
(* MaxDeviations sections absent or replaced by another value of that        *)
(* section                                                                    *)

BaseSections ==
    [whoAmI |-> [content |-> <<<<"H", "i", "!">>, <<"a", ",", "b">>>>],
     personalInfo |->
         [legalName |-> <<"X", "i">>, preferredName |-> <<"S", "h">>, dateOfBirth |-> <<"1", "/", "1">>,
          email |-> <<"a", "@", "b">>, phones |-> <<<<"1", "-", "2", " ", "3", ".", "4">>>>],
     knowHow |-> <<<<"A">>, <<"B">>, <<"C">>>>,
     showcase |->
         <<[title |-> <<"P">>, url |-> <<"u">>, description |-> <<"d">>,
            details |-> <<<<"x", ",", " ", "y">>>>]>>,
     experience |->
         <<[title |-> <<"T">>, period |-> <<"1", "-", "2">>, details |-> <<<<"w", "!">>>>]>>,
     education |->
         <<[degree |-> <<"B", "S", "c">>, institution |-> <<"M", "I", "T">>, institutionUrl |-> <<"u", "1">>,
            period |-> <<"2", "0", "1", "0", "-", "2", "0", "1", "4">>]>>]

\* other values a section may have; the entries that lack a property the
\* renderer dereferences make it raise a TypeError
SectionVariants ==
    [whoAmI |-> <<[content |-> <<>>], [title |-> <<"T">>]>>,
     personalInfo |->
         <<[legalName |-> <<"X", "i">>, preferredName |-> <<"S", "h">>, dateOfBirth |-> <<"1", "/", "1">>,
            email |-> <<"a", "@", "b">>],
           [legalName |-> <<"X", "i">>, preferredName |-> <<"S", "h">>, dateOfBirth |-> <<"1", "/", "1">>,
            email |-> <<"a", "@", "b">>, phones |-> <<<<"1", "-", "2", " ", "3", ".", "4">>, <<"5", " ", "6">>>>]>>,
     knowHow |-> <<<<>>, <<<<"A">>, <<"B">>, <<"C">>, <<"D">>, <<"E">>>>>>,
     showcase |->
         <<<<[title |-> <<"P">>, url |-> <<"u">>, description |-> <<"d">>,
              details |-> <<<<"x", ",", " ", "y">>>>],
             [title |-> <<"P">>, url |-> <<"u">>, description |-> <<"d">>]>>>>,
     experience |->
         <<<<[title |-> <<"T">>, details |-> <<<<"w", "!">>>>]>>,
           <<[title |-> <<"T">>, period |-> <<"1", "-", "2">>]>>>>,
     education |->
         <<<<[degree |-> <<"B", "S", "c">>, institution |-> <<"M", "I", "T", " ", "&", " ", "C", "a", "l", "t", "e", "c", "h">>, institutionUrl |-> <<"u", "1">>,
              institutionUrl2 |-> <<"u", "2">>, period |-> <<"2", "0", "1", "0", "-", "2", "0", "1", "4">>]>>,
           <<[degree |-> <<"B", "S", "c">>, institution |-> <<"M", "I", "T">>, institutionUrl |-> <<"u", "1">>,
              institutionUrl2 |-> <<"u", "2">>, period |-> <<"2", "0", "1", "0", "-", "2", "0", "1", "4">>]>>>>]

\* a deviation names, for some sections, 0 (the key is absent) or the
\* position of a variant
MostVariants ==
    CHOOSE n \in {Len(SectionVariants[k]) : k \in SectionNames} :
        \A k \in SectionNames : Len(SectionVariants[k]) <= n

Deviations ==
    UNION {[D -> 0..MostVariants] :
              D \in {E \in SUBSET SectionNames : Cardinality(E) <= MaxDeviations}}

WellFormedDeviation(dv) ==
    \A k \in DOMAIN dv : dv[k] <= Len(SectionVariants[k])

SectionsOf(dv) ==
    [k \in {n \in SectionNames : n \notin DOMAIN dv \/ dv[n] # 0} |->
        IF k \in DOMAIN dv THEN SectionVariants[k][dv[k]] ELSE BaseSections[k]]

SectionsDocuments == {SectionsOf(dv) : dv \in {d \in Deviations : WellFormedDeviation(d)}}

StylingOf(firstLetter, punctuation) ==
    [firstLetterRule |-> [enabled |-> firstLetter, className |-> FirstLetterClass],
     punctuationRule |->
         [enabled |-> punctuation, characters |-> {",", "!", "-", "."},
          className |-> PunctuationClass]]

StylingDocuments == {StylingOf(f, q) : f \in BOOLEAN, q \in BOOLEAN}

\* what response.json() may resolve to: the JSON value null, or an object
\* with or without the keys sections and styling
JsonNull == Null

Payloads ==
    {JsonNull}
    \cup {[sections |-> sc, styling |-> sy] :
             sc \in SectionsDocuments, sy \in StylingDocuments}
    \cup {[sections |-> sc] : sc \in SectionsDocuments}
    \cup {[styling |-> sy] : sy \in StylingDocuments}

----------------------------------------------------------------------------
(* The page load: the DOMContentLoaded listener, loadContentData and init.  *)
(*   pc = "idle"      the script has run, DOMContentLoaded has not fired     *)
(*        "fetching"  init awaits loadContentData, which awaits fetch()      *)
(*        "parsing"   loadContentData awaits response.json()                 *)
(*        "loaded"    loadContentData has returned, init has not resumed     *)
(*        "failed"    init returned at "Failed to load content data"         *)
(*        "ready"     init returned with the render timer pending            *)
(*        "rendered"  the timer callback has run                             *)

Pages == {Selectors \ m : m \in {n \in SUBSET Selectors : Cardinality(n) <= MaxMissing}}

Init ==
    /\ pc = "idle"
    /\ \E p \in Pages : ConstructedOn(p)
    /\ stylingRules = Null
    /\ styleBox = InitialElement
    /\ styleIn = NoText
    /\ styleThrew = FALSE
    /\ SideIdle

\* the listener: new ContentManager(), init(), loadContentData() up to fetch
DOMContentLoaded ==
    /\ pc = "idle"
    /\ contentData' = Null
    /\ stylingRules' = Null
    /\ fetches' = fetches + 1
    /\ pc' = "fetching"
    /\ UNCHANGED <<page, dom, written, loadResult, invoked, reported, uncaught, styleVars, sideVars>>

\* the catch block of loadContentData: report the error, return null
LoaderCatches(error) ==
    /\ reported' = reported \cup {"Failed to load content data:", error}
    /\ loadResult' = "null"
    /\ pc' = "loaded"
    /\ UNCHANGED <<page, dom, written, contentData, stylingRules, invoked, uncaught,
                   fetches, styleVars, sideVars>>

\* fetch() rejects (network error)
FetchRejects ==
    /\ pc = "fetching"
    /\ LoaderCatches("TypeError: Failed to fetch")

\* fetch() resolves with response.ok false: the loader throws "HTTP error!"
FetchRespondsNotOk ==
    /\ pc = "fetching"
    /\ LoaderCatches("Error: HTTP error! status")

\* fetch() resolves with response.ok true: the loader awaits response.json()
FetchRespondsOk ==
    /\ pc = "fetching"
    /\ pc' = "parsing"
    /\ UNCHANGED <<page, dom, written, contentData, stylingRules, loadResult, invoked,
                   reported, uncaught, fetches, styleVars, sideVars>>

\* response.json() rejects: the body is not JSON
JsonFails ==
    /\ pc = "parsing"
    /\ LoaderCatches("SyntaxError: not valid JSON")

\* the loader's statements after "const data = await response.json()"
LoaderStores(data) ==
    IF data = JsonNull
    THEN LoaderCatches("TypeError: cannot read properties of null")
    ELSE /\ contentData' = IF "sections" \in DOMAIN data THEN data.sections ELSE Undefined
         /\ stylingRules' = IF "styling" \in DOMAIN data THEN data.styling ELSE Undefined
         /\ loadResult' = "data"
         /\ pc' = "loaded"
         /\ UNCHANGED <<page, dom, written, invoked, reported, uncaught, fetches, styleVars, sideVars>>

\* response.json() resolves
JsonParses ==
    /\ pc = "parsing"
    /\ \E data \in Payloads : LoaderStores(data)

\* init without its "if (!this.contentData) return": the timer is always set
InitResumes_NoCheck ==
    /\ pc = "loaded"
    /\ pc' = "ready"
    /\ UNCHANGED <<page, dom, written, contentData, stylingRules, loadResult, invoked,
                   reported, uncaught, fetches, styleVars, sideVars>>

\* init that calls the six renderers itself instead of setting the timer
InitResumes_RendersAtOnce ==
    /\ pc = "loaded"
    /\ IF ~Truthy(contentData)
       THEN /\ reported' = reported \cup {"Failed to load content data"}
            /\ pc' = "failed"
            /\ UNCHANGED <<dom, written, uncaught, invoked>>
       ELSE \E run \in {TimerCallback([dom |-> dom, written |-> written,
                                       reported |-> reported, threw |-> FALSE],
                                      contentData, stylingRules, page)} :
                /\ dom' = run.R.dom
                /\ written' = run.R.written
                /\ reported' = run.R.reported
                /\ uncaught' = run.R.threw
                /\ invoked' = run.calls
                /\ pc' = "rendered"
    /\ UNCHANGED <<page, contentData, stylingRules, loadResult, fetches, styleVars, sideVars>>

\* init that fetches the document a second time when the first load failed
InitResumes_Retries ==
    /\ pc = "loaded"
    /\ IF ~Truthy(contentData)
       THEN /\ reported' = reported \cup {"Failed to load content data"}
            /\ IF fetches < 2
               THEN pc' = "fetching" /\ fetches' = fetches + 1
               ELSE pc' = "failed" /\ fetches' = fetches
       ELSE /\ reported' = reported
            /\ fetches' = fetches
            /\ pc' = "ready"
    /\ UNCHANGED <<page, dom, written, contentData, stylingRules, loadResult, invoked,
                   uncaught, styleVars, sideVars>>

\* init after "await this.loadContentData()": give up, or set the timer
InitResumes ==
    /\ pc = "loaded"
    /\ IF ~Truthy(contentData)
       THEN /\ reported' = reported \cup {"Failed to load content data"}
            /\ pc' = "failed"
       ELSE /\ reported' = reported
            /\ pc' = "ready"
    /\ UNCHANGED <<page, dom, written, contentData, stylingRules, loadResult, invoked,
                   uncaught, fetches, styleVars, sideVars>>

\* the timer fires: the callback runs as one task
TimerFires ==
    /\ pc = "ready"
    /\ \E run \in {TimerCallback([dom |-> dom, written |-> written,
                                  reported |-> reported, threw |-> FALSE],
                                 contentData, stylingRules, page)} :
          /\ dom' = run.R.dom
          /\ written' = run.R.written
          /\ reported' = run.R.reported
          /\ uncaught' = run.R.threw
          /\ invoked' = run.calls
    /\ pc' = "rendered"
    /\ UNCHANGED <<page, contentData, stylingRules, loadResult, fetches, styleVars, sideVars>>

Next ==
    \/ DOMContentLoaded
    \/ FetchRejects
    \/ FetchRespondsNotOk
    \/ FetchRespondsOk
    \/ JsonFails
    \/ JsonParses
    \/ InitResumes
    \/ TimerFires

Spec == Init /\ [][Next]_vars

----------------------------------------------------------------------------
(* StyleSpec: applyStyleToText on its own, over every text up to MaxLen and  *)
(* every rule set, on a container that already has a child                    *)

Chars == {"a", ",", "!"}

RECURSIVE StringsUpTo(_)
StringsUpTo(n) ==
    IF n = 0 THEN {<<>>}
    ELSE LET shorter == StringsUpTo(n - 1)
         IN shorter \cup {Append(s, c) : s \in {t \in shorter : Len(t) = n - 1}, c \in Chars}

\* the text of the specification's worked example
HelloWorld == <<"H", "e", "l", "l", "o", ",", " ", "W", "o", "r", "l", "d", "!">>

Texts == StringsUpTo(MaxLen) \cup {HelloWorld, UndefinedStr}

FirstLetterRules ==
    {[enabled |-> e, className |-> FirstLetterClass] : e \in BOOLEAN}

PunctuationRules ==
    {[enabled |-> e, characters |-> cs, className |-> PunctuationClass] :
        e \in BOOLEAN, cs \in SUBSET Chars}

\* data.styling: undefined, or an object with each rule present or not
StylingRuleSets ==
    {Undefined}
    \cup {[firstLetterRule |-> f, punctuationRule |-> q] :
             f \in FirstLetterRules, q \in PunctuationRules}
    \cup {[firstLetterRule |-> f] : f \in FirstLetterRules}
    \cup {[punctuationRule |-> q] : q \in PunctuationRules}

StyleInit ==
    /\ pc = "idle"
    /\ ConstructedOn(Selectors)
    /\ stylingRules \in StylingRuleSets
    /\ styleBox = InitialElement
    /\ styleIn = NoText
    /\ styleThrew = FALSE
    /\ SideIdle

\* one call this.applyStyleToText(text, styleBox)
ApplyStyle ==
    \E text \in Texts :
        LET r == ApplyStyleToText(text, styleBox, stylingRules)
        IN /\ styleBox' = r.container
           /\ styleIn' = text
           /\ styleThrew' = r.threw
           /\ UNCHANGED <<orchVars, stylingRules, sideVars>>

StyleNext == ApplyStyle

StyleSpec == StyleInit /\ [][StyleNext]_vars

----------------------------------------------------------------------------
(* SectionSpec: the section renderers of a ContentManager that holds a      *)
(* loaded document, each called on its own, in any order and any number of  *)
(* times, over every bounded value of one section and over one document     *)
(* whose strings all carry markup characters                                *)

MaxItems == 5
MaxPhones == 3
MaxEntries == 2
MaxLines == 3

\* the sequences of at most n members of S
RECURSIVE SeqsUpTo(_, _)
SeqsUpTo(S, n) ==
    IF n = 0 THEN {<<>>}
    ELSE LET shorter == SeqsUpTo(S, n - 1)
         IN shorter \cup {Append(q, x) : q \in {t \in shorter : Len(t) = n - 1}, x \in S}

MarkupText == <<"<", "b", ">">>

KnowHowLabels == {<<"A">>, MarkupText}

KnowHowLists == SeqsUpTo(KnowHowLabels, MaxItems)

PhoneSamples == {<<"1", "-", "2", " ", "3", ".", "4">>, <<"5", "\t", "6">>}

PhoneLists == SeqsUpTo(PhoneSamples, MaxPhones)

\* personalInfo without phones, and with every list of phones
PersonalInfos ==
    {SectionVariants.personalInfo[1]}
    \cup {[legalName |-> <<"X", "i">>, preferredName |-> <<"S", "h">>,
           dateOfBirth |-> <<"1", "/", "1">>, email |-> <<"a", "@", "b">>,
           phones |-> ps] : ps \in PhoneLists}

Institutions ==
    {<<"M", "I", "T">>,
     <<"M", "I", "T", " ", "&", " ", "C", "a", "l", "t", "e", "c", "h">>,
     <<"A", " ", "&", " ", "B", " ", "&", " ", "C">>}

\* education entries without and with institutionUrl2
EducationSamples ==
    {[degree |-> <<"B", "S", "c">>, institution |-> inst, institutionUrl |-> <<"u", "1">>,
      period |-> <<"2", "0", "1", "0">>] : inst \in Institutions}
    \cup {[degree |-> <<"B", "S", "c">>, institution |-> inst,
           institutionUrl |-> <<"u", "1">>, institutionUrl2 |-> <<"u", "2">>,
           period |-> <<"2", "0", "1", "0">>] : inst \in Institutions}

EducationLists == SeqsUpTo(EducationSamples, MaxEntries)

\* a document every string of which holds markup characters
MarkupSections ==
    [whoAmI |-> [content |-> <<MarkupText>>],
     personalInfo |->
         [legalName |-> MarkupText, preferredName |-> MarkupText,
          dateOfBirth |-> MarkupText, email |-> MarkupText, phones |-> <<MarkupText>>],
     knowHow |-> <<MarkupText>>,
     showcase |->
         <<[title |-> MarkupText, url |-> MarkupText, description |-> MarkupText,
            details |-> <<MarkupText>>]>>,
     experience |-> <<[title |-> MarkupText, period |-> MarkupText, details |-> <<MarkupText>>]>>,
     education |->
         <<[degree |-> MarkupText, institution |-> MarkupText, institutionUrl |-> MarkupText,
            period |-> MarkupText]>>]

LineSamples == {<<"H", "i", "!">>, <<"a", ",", "b">>}

WhoAmILists == SeqsUpTo(LineSamples, MaxLines)

SectionDocuments ==
    {[knowHow |-> k] : k \in KnowHowLists}
    \cup {[whoAmI |-> [content |-> c]] : c \in WhoAmILists}
    \cup {BaseSections}
    \cup {[personalInfo |-> info] : info \in PersonalInfos}
    \cup {[education |-> e] : e \in EducationLists}
    \cup {MarkupSections}

\* a ContentManager after a successful load, on a page with every mount point
SectionInit ==
    /\ pc = "ready"
    /\ page = Selectors
    /\ dom = InitialDom
    /\ written = {}
    /\ contentData \in SectionDocuments
    /\ stylingRules \in StylingDocuments
    /\ loadResult = "data"
    /\ invoked = <<>>
    /\ reported = {}
    /\ uncaught = FALSE
    /\ fetches = 1
    /\ styleBox = InitialElement
    /\ styleIn = NoText
    /\ styleThrew = FALSE
    /\ SideIdle

\* one call of the renderer of section name
CallRenderer(name) ==
    /\ pc = "ready"
    /\ \E R \in {RenderSection(name, [dom |-> dom, written |-> written,
                                      reported |-> reported, threw |-> FALSE],
                               contentData, stylingRules, page)} :
          /\ dom' = R.dom
          /\ written' = R.written
          /\ reported' = R.reported
          /\ uncaught' = (uncaught \/ R.threw)
    /\ UNCHANGED <<pc, page, contentData, stylingRules, loadResult, invoked, fetches,
                   styleVars, sideVars>>

CallRenderWhoAmISection == CallRenderer("whoAmI")
CallRenderPersonalInfoSection == CallRenderer("personalInfo")
CallRenderKnowHowSection == CallRenderer("knowHow")
CallRenderShowcaseSection == CallRenderer("showcase")
CallRenderExperienceSection == CallRenderer("experience")
CallRenderEducationSection == CallRenderer("education")

SectionNext ==
    \/ CallRenderWhoAmISection
    \/ CallRenderPersonalInfoSection
    \/ CallRenderKnowHowSection
    \/ CallRenderShowcaseSection
    \/ CallRenderExperienceSection
    \/ CallRenderEducationSection

SectionSpec == SectionInit /\ [][SectionNext]_vars

----------------------------------------------------------------------------
(* Properties of applyStyleToText, checked under StyleSpec *)

StyleCalled == styleIn # NoText

\* applyStyleToText has been called with a string and has returned
StyleReturned == StyleCalled /\ styleIn # UndefinedStr /\ ~styleThrew

\* the texts of the nodes kids[from..], concatenated in append order
TextFrom(kids, from) ==
    Concat([i \in 1..(Len(kids) - from + 1) |-> NodeText(kids[i + from - 1])])

\* n is a span of class cls showing exactly the one-character text <<c>>
IsSpanOf(n, cls, c) ==
    /\ ~IsText(n)
    /\ n.tag = "span"
    /\ n.className = cls
    /\ n.kids = <<TextNode(<<c>>)>>

\* the punctuation set of the rule, whether the rule is enabled or not
PunctuationSet == stylingRules.punctuationRule.characters

\* number of nodes the first-letter step appended in the last call
FirstLetterNodes == IF FirstLetterEnabled(stylingRules) THEN 1 ELSE 0

\* the working text the punctuation step of the last call received
WorkingText ==
    IF FirstLetterEnabled(stylingRules) /\ Len(styleIn) > 0
    THEN Tail(styleIn) ELSE styleIn

\* C1: lossless segmentation. After applyStyleToText(text, container) with a
\* punctuation set that contains a character of text (either rule enabled or
\* not), the texts of the container's children, concatenated in append order,
\* are exactly text.
C1_LosslessSegmentation ==
    (/\ StyleReturned
     /\ HasRule(stylingRules, "punctuationRule")
     /\ \E i \in 1..Len(styleIn) : styleIn[i] \in PunctuationSet)
    => TextFrom(styleBox.kids, 1) = styleIn

C1_Witness ==
    /\ StyleReturned
    /\ styleIn = HelloWorld
    /\ FirstLetterEnabled(stylingRules)
    /\ PunctuationEnabled(stylingRules)
    /\ PunctuationSet = {",", "!"}
    /\ Len(styleBox.kids) = 5
    /\ TextFrom(styleBox.kids, 1) = HelloWorld

\* C2: with the punctuation rule enabled, the nodes appended after the
\* first-letter node are, in the order of the working text: one span of the
\* punctuation class per character of the punctuation set, and one text node
\* per maximal non-empty run of other characters (no empty text node, no two
\* text nodes in a row, and together they spell the working text).
C2_PunctuationSegments ==
    (StyleReturned /\ PunctuationEnabled(stylingRules))
    => LET kids == styleBox.kids
           from == FirstLetterNodes + 1
       IN /\ \A i \in from..Len(kids) :
                 IF IsText(kids[i])
                 THEN /\ kids[i].data # <<>>
                      /\ \A j \in 1..Len(kids[i].data) :
                             kids[i].data[j] \notin PunctuationSet
                 ELSE \E c \in PunctuationSet :
                          IsSpanOf(kids[i], stylingRules.punctuationRule.className, c)
          /\ \A i \in from..(Len(kids) - 1) : ~(IsText(kids[i]) /\ IsText(kids[i + 1]))
          /\ TextFrom(kids, from) = WorkingText

\* the worked example: "Hello, World!" with the set ",!" and both rules on
C2_Witness ==
    /\ StyleReturned
    /\ styleIn = HelloWorld
    /\ FirstLetterEnabled(stylingRules)
    /\ PunctuationEnabled(stylingRules)
    /\ PunctuationSet = {",", "!"}
    /\ Len(styleBox.kids) = 5
    /\ IsSpanOf(styleBox.kids[1], FirstLetterClass, "H")
    /\ styleBox.kids[2] = TextNode(<<"e", "l", "l", "o">>)
    /\ IsSpanOf(styleBox.kids[3], PunctuationClass, ",")
    /\ styleBox.kids[4] = TextNode(<<" ", "W", "o", "r", "l", "d">>)
    /\ IsSpanOf(styleBox.kids[5], PunctuationClass, "!")

\* C3: with the first-letter rule enabled and a non-empty text, the first
\* child is a span of the first-letter class holding exactly the first
\* character (also when that character is in the punctuation set), and the
\* remaining children spell the rest of the text; with the rule disabled and
\* the punctuation rule enabled, the first character is scanned like any
\* other: a punctuation span if it is in the set, else the start of a text node.
C3_FirstLetterIsolation ==
    (StyleReturned /\ Len(styleIn) > 0)
    => LET kids == styleBox.kids
       IN IF FirstLetterEnabled(stylingRules)
          THEN /\ Len(kids) >= 1
               /\ IsSpanOf(kids[1], stylingRules.firstLetterRule.className, styleIn[1])
               /\ TextFrom(kids, 2) = Tail(styleIn)
          ELSE PunctuationEnabled(stylingRules)
               => /\ Len(kids) >= 1
                  /\ IF styleIn[1] \in PunctuationSet
                     THEN IsSpanOf(kids[1], stylingRules.punctuationRule.className,
                                   styleIn[1])
                     ELSE IsText(kids[1]) /\ Head(kids[1].data) = styleIn[1]

\* a leading punctuation character under both rules
C3_Witness ==
    /\ StyleReturned
    /\ Len(styleIn) >= 2
    /\ FirstLetterEnabled(stylingRules)
    /\ PunctuationEnabled(stylingRules)
    /\ styleIn[1] \in PunctuationSet
    /\ IsSpanOf(styleBox.kids[1], FirstLetterClass, styleIn[1])

\* C4: with the first-letter rule enabled and the empty string as input, the
\* call appends no node of the first-letter class.
C4_EmptyInputNoFirstLetterNode ==
    (StyleReturned /\ FirstLetterEnabled(stylingRules) /\ styleIn = <<>>)
    => \A i \in 1..Len(styleBox.kids) :
           IsText(styleBox.kids[i])
           \/ styleBox.kids[i].className # stylingRules.firstLetterRule.className

\* C5: when the working text left after the first-letter step is empty, the
\* call appends no node besides the first-letter step's, whether the
\* punctuation rule is enabled or not, and raises no error.
C5_EmptyWorkingTextNoNodes ==
    (StyleCalled /\ styleIn # UndefinedStr /\ WorkingText = <<>>)
    => /\ ~styleThrew
       /\ Len(styleBox.kids) = FirstLetterNodes

----------------------------------------------------------------------------
(* Properties of the page load, checked under Spec *)

Range(seq) == {seq[i] : i \in 1..Len(seq)}

\* the selectors the renderer of a section queries
MountsOf(name) ==
    CASE name = "whoAmI" -> {WhoAmISel, WhoAmIFallbackSel}
      [] name = "personalInfo" -> {PersonalInfoSel}
      [] name = "knowHow" -> {KnowHowLeftSel, KnowHowRightSel}
      [] name = "showcase" -> {ShowcaseSel}
      [] name = "experience" -> {ExperienceSel}
      [] name = "education" -> {EducationSel}

\* the section's mount point is on the page: one of the two who-am-i
\* selectors, both know-how lists, the one container of the other sections
MountPresent(name) ==
    IF name = "whoAmI" THEN MountsOf(name) \cap page # {}
    ELSE MountsOf(name) \subseteq page

\* the elements the renderer of a section writes to when its mount is present
TargetsOf(name) ==
    IF name = "whoAmI"
    THEN IF WhoAmISel \in page THEN {WhoAmISel} ELSE {WhoAmIFallbackSel}
    ELSE MountsOf(name)

MissingDataMessage(name) ==
    CASE name = "whoAmI" -> "No whoAmI data found"
      [] name = "personalInfo" -> "No personalInfo data found"
      [] name = "knowHow" -> "No knowHow data found"
      [] name = "showcase" -> "No showcase data found"
      [] name = "experience" -> "No experience data found"
      [] name = "education" -> "No education data found"

MissingContainerMessage(name) ==
    CASE name = "whoAmI" -> "Who Am I container not found"
      [] name = "personalInfo" -> "Personal Info container not found"
      [] name = "knowHow" -> "Know-How containers not found"
      [] name = "showcase" -> "Showcase container not found"
      [] name = "experience" -> "Experience container not found"
      [] name = "education" -> "Education container not found"

\* the section's value has the shape the input document is specified to have
ConformsToShape(name, v) ==
    CASE name = "whoAmI" -> "content" \in DOMAIN v
      [] name = "personalInfo" ->
             {"legalName", "preferredName", "dateOfBirth", "email"} \subseteq DOMAIN v
      [] name = "knowHow" -> TRUE
      [] name = "showcase" ->
             \A i \in 1..Len(v) : {"title", "url", "description", "details"} \subseteq DOMAIN v[i]
      [] name = "experience" ->
             \A i \in 1..Len(v) : {"title", "period", "details"} \subseteq DOMAIN v[i]
      [] name = "education" ->
             \A i \in 1..Len(v) :
                 {"degree", "institution", "institutionUrl", "period"} \subseteq DOMAIN v[i]

Loaded == Truthy(contentData)

Present(name) == Loaded /\ name \in DOMAIN contentData

AbsentSections == IF Loaded THEN SectionNames \ DOMAIN contentData ELSE SectionNames

\* every section the document has conforms to its shape
DocumentConforms ==
    Loaded /\ \A n \in DOMAIN contentData : ConformsToShape(n, contentData[n])

\* no renderer has written to any element behind the section's selectors
Untouched(name) ==
    \A sel \in MountsOf(name) : sel \notin written /\ dom[sel] = InitialDom[sel]

\* what the section's renderer, run alone on the served page, leaves behind
RenderedAlone(name) ==
    RenderSection(name,
                  [dom |-> InitialDom, written |-> {}, reported |-> {}, threw |-> FALSE],
                  contentData, stylingRules, page)

\* the section's renderer ran and its container(s) hold its output: written
\* to, the served placeholder gone, and the same children as the renderer
\* produces on its own
Populated(name) ==
    /\ name \in Range(invoked)
    /\ \A sel \in TargetsOf(name) :
           /\ sel \in written
           /\ Placeholder \notin Range(dom[sel])
           /\ dom[sel] = RenderedAlone(name).dom[sel]

\* C6: isolation on missing data. For a loaded document with exactly one of
\* the six section keys absent (the other five as the input shape says),
\* after the render task the absent section's renderer has run, reported the
\* missing data and written to no element, and each of the other five
\* renderers has run and populated its container where the page has it.
C6_MissingDataIsolation ==
    (pc = "rendered" /\ DocumentConforms /\ Cardinality(AbsentSections) = 1)
    => \A k \in AbsentSections :
           /\ k \in Range(invoked)
           /\ MissingDataMessage(k) \in reported
           /\ Untouched(k)
           /\ \A j \in SectionNames \ {k} :
                  /\ j \in Range(invoked)
                  /\ MountPresent(j) => Populated(j)

C6_Witness ==
    /\ pc = "rendered"
    /\ DocumentConforms
    /\ AbsentSections = {"showcase"}
    /\ page = Selectors
    /\ Untouched("showcase")
    /\ \A j \in SectionNames \ {"showcase"} : Populated(j)
    /\ Len(dom[EducationSel]) = 1

\* C7: missing container. After the render task on a conforming document,
\* every section that has data but no mount point on the page has written to
\* no element (for know-how: neither list, also the one that is present) and
\* has reported the missing container, and every renderer has run, each other
\* section with data and a mount point being populated.
C7_MissingContainerNoWrites ==
    (pc = "rendered" /\ DocumentConforms)
    => \A k \in SectionNames :
           (Present(k) /\ ~MountPresent(k))
           => /\ Untouched(k)
              /\ MissingContainerMessage(k) \in reported
              /\ Range(invoked) = SectionNames
              /\ \A j \in SectionNames \ {k} :
                     (Present(j) /\ MountPresent(j)) => Populated(j)

\* the right know-how list is missing: the left one keeps its placeholder
C7_Witness ==
    /\ pc = "rendered"
    /\ DocumentConforms
    /\ Present("knowHow")
    /\ KnowHowLeftSel \in page
    /\ KnowHowRightSel \notin page
    /\ dom[KnowHowLeftSel] = <<Placeholder>>
    /\ "Know-How containers not found" \in reported
    /\ Populated("education")

\* C8: no error in one section renderer aborts another. After the render
\* task every one of the six renderers has been called, whether or not one of
\* them raised an exception.
C8_NoRendererAbortsAnother ==
    pc = "rendered" => Range(invoked) = SectionNames

\* the load failed: loadContentData returned null
LoadFailed == loadResult = "null"

\* C9: failure path. Once the loader has failed (fetch rejected, non-success
\* status, or a body that does not parse) the page load is in Loading or in
\* Failed, no renderer has been called, no element has been written to and
\* only the one fetch was issued; init's next step leads to Failed; and
\* nothing happens after Failed.
C9_FailurePath ==
    /\ [](LoadFailed =>
             /\ pc \in {"loaded", "failed"}
             /\ invoked = <<>>
             /\ written = {}
             /\ dom = InitialDom
             /\ fetches = 1)
    /\ [](pc = "failed" => ~Loaded)
    /\ [][(LoadFailed /\ pc = "loaded") => pc' = "failed"]_vars
    /\ [][pc = "failed" => pc' = "failed"]_vars

C9_Witness ==
    /\ pc = "failed"
    /\ LoadFailed
    /\ "Error: HTTP error! status" \in reported
    /\ "Failed to load content data" \in reported
    /\ written = {}

\* C10: whenever the parsed payload lacks the top-level key sections or the
\* top-level key styling, the load yields "no document" (contentData is not
\* set) and nothing is rendered.
C10_MissingTopLevelKeyFails ==
    (loadResult = "data" /\ (contentData = Undefined \/ stylingRules = Undefined))
    => /\ ~Loaded
       /\ pc \in {"loaded", "failed"}
       /\ invoked = <<>>
       /\ written = {}

\* the number of times the renderer of a section was called
TimesInvoked(name) == Cardinality({i \in DOMAIN invoked : invoked[i] = name})

\* C11: after a successful load each of the six section renderers is invoked,
\* exactly once for that page load. Stated on finite runs: once the render
\* task of a loaded page has run, every renderer was called exactly once.
C11_EachRendererInvokedOnce ==
    (Loaded /\ pc = "rendered") => \A name \in SectionNames : TimesInvoked(name) = 1

\* C12, as the specification words it: once the load has completed with a
\* document, the next step of the page load is the rendering of the sections,
\* with no timer task in between.
C12_NoTimerInterposed ==
    [][(pc = "loaded" /\ Loaded) => pc' = "rendered"]_vars

\* C12: after the fetch has resolved with a document, init sets one timer and
\* returns without calling a renderer or writing to the page; the renderers
\* are called only by that timer's callback, all six calls within the one
\* task, and nothing follows the task.
C12_OneTimerTaskBeforeRendering ==
    [][/\ (pc = "loaded" /\ Loaded) =>
             (pc' = "ready" /\ invoked' = invoked /\ dom' = dom /\ written' = written)
       /\ (invoked' # invoked \/ dom' # dom \/ written' # written) =>
             (pc = "ready" /\ pc' = "rendered")
       /\ pc = "ready" => pc' = "rendered"
       /\ pc = "rendered" => pc' = "rendered"]_vars

C12_Witness ==
    /\ pc = "ready"
    /\ Loaded
    /\ invoked = <<>>
    /\ written = {}
    /\ dom = InitialDom


----------------------------------------------------------------------------
(* Properties of the section renderers, checked under SectionSpec *)

\* the visible texts of the children of the mount point behind sel, in order
ItemsShown(sel) == [i \in 1..Len(dom[sel]) |-> NodeText(dom[sel][i])]

\* every child of the mount point behind sel is an element with the given tag
AllTagged(sel, tag) == \A i \in 1..Len(dom[sel]) : dom[sel][i].tag = tag

\* the know-how renderer has filled its two lists
KnowHowRendered ==
    Present("knowHow") /\ {KnowHowLeftSel, KnowHowRightSel} \subseteq written

\* C13: know-how split. For a knowHow list of n items the left list holds
\* exactly the first ceil(n/2) items and the right list the remaining
\* floor(n/2) items, one list entry per item, each in the original order, so
\* that left followed by right is the original sequence.
C13_KnowHowSplit ==
    KnowHowRendered =>
        LET n == Len(contentData.knowHow)
            left == ItemsShown(KnowHowLeftSel)
            right == ItemsShown(KnowHowRightSel)
        IN /\ 2 * Len(left) \in {n, n + 1}
           /\ Len(right) = n - Len(left)
           /\ Len(right) <= Len(left)
           /\ left \o right = contentData.knowHow
           /\ AllTagged(KnowHowLeftSel, "li")
           /\ AllTagged(KnowHowRightSel, "li")

C13_Witness ==
    /\ KnowHowRendered
    /\ Len(contentData.knowHow) = 5
    /\ Len(dom[KnowHowLeftSel]) = 3
    /\ Len(dom[KnowHowRightSel]) = 2
    /\ ItemsShown(KnowHowLeftSel) # ItemsShown(KnowHowRightSel) \o <<MarkupText>>

\* the education renderer has written one block per entry
EducationRendered ==
    /\ Present("education")
    /\ EducationSel \in written
    /\ Len(dom[EducationSel]) = Len(contentData.education)

\* the heading of the i-th education block: block > hgroup > h4
EducationHeading(i) == dom[EducationSel][i].kids[1].kids[1]

\* the links of a heading, in order
LinksOf(h4) == SelectSeq(h4.kids, LAMBDA k : k.tag = "a")

\* entry edu names two institutions: institutionUrl2 is given and institution
\* splits on " & " into exactly two parts
TwoPartInstitution(edu) ==
    /\ TruthyStr(edu, "institutionUrl2")
    /\ Len(Split(edu.institution, InstitutionSeparator)) = 2

\* C14: for every education entry whose institutionUrl2 is present and whose
\* institution splits on " & " into exactly two parts, the heading holds
\* exactly two links, in the original order: the first shows the first part
\* and leads to institutionUrl, the second shows the second part and leads to
\* institutionUrl2, and a styled ampersand node stands between them.
C14_TwoInstitutionLinks ==
    EducationRendered =>
        \A i \in 1..Len(contentData.education) :
            LET edu == contentData.education[i]
                parts == Split(edu.institution, InstitutionSeparator)
                h4 == EducationHeading(i)
                k == Len(h4.kids)
            IN TwoPartInstitution(edu) =>
                   /\ h4.tag = "h4"
                   /\ Len(LinksOf(h4)) = 2
                   /\ k >= 3
                   /\ h4.kids[k - 2].tag = "a"
                   /\ NodeText(h4.kids[k - 2]) = parts[1]
                   /\ h4.kids[k - 2].href = edu.institutionUrl
                   /\ h4.kids[k - 1].tag = "span"
                   /\ h4.kids[k - 1].className = PunctuationClass
                   /\ NodeText(h4.kids[k - 1]) = InstitutionSeparator
                   /\ h4.kids[k].tag = "a"
                   /\ NodeText(h4.kids[k]) = parts[2]
                   /\ h4.kids[k].href = edu.institutionUrl2
                   /\ parts[1] \o InstitutionSeparator \o parts[2] = edu.institution

C14_Witness ==
    /\ EducationRendered
    /\ Len(contentData.education) = 2
    /\ TwoPartInstitution(contentData.education[2])
    /\ ~TwoPartInstitution(contentData.education[1])
    /\ Len(LinksOf(EducationHeading(2))) = 2
    /\ NodeText(LinksOf(EducationHeading(2))[2]) = <<"C", "a", "l", "t", "e", "c", "h">>

\* C15: for every education entry that is not a valid two-part institution
\* (institutionUrl2 absent, or present while institution does not split on
\* " & " into exactly two parts) the heading holds exactly one link, showing
\* the whole institution string; so every heading holds at least one link.
C15_SingleLinkOtherwise ==
    EducationRendered =>
        \A i \in 1..Len(contentData.education) :
            LET edu == contentData.education[i]
                links == LinksOf(EducationHeading(i))
            IN /\ Len(links) >= 1
               /\ ~TwoPartInstitution(edu) =>
                      /\ Len(links) = 1
                      /\ NodeText(links[1]) = edu.institution

\* the tags of the elements the renderers create
CodeTags == {"a", "br", "div", "h4", "h5", "li", "p", "span", "strong", "ul"}

\* the class names written in the renderers' code ("" : none set)
CodeClassNames == {"", "punctuation-highlight", "exp animated fadeInUp", "hgroup"}

\* the class names the styling part of the document gives
DocumentClassNames ==
    {stylingRules[r].className :
        r \in {q \in DOMAIN stylingRules : "className" \in DOMAIN stylingRules[q]}}

\* node n and its descendants are text nodes and elements created by the
\* code, with class names among classes
RECURSIVE BuiltByCode(_, _)
BuiltByCode(n, classes) ==
    \/ IsText(n)
    \/ /\ n.tag \in CodeTags
       /\ n.className \in classes
       /\ n.className \notin CodeClassNames => n.tag = "span"
       /\ \A i \in 1..Len(n.kids) : BuiltByCode(n.kids[i], classes)

\* C16, as the specification words it: a string of the content document
\* reaches the page only as the data of a text node or as a link target;
\* every element, its tag and its class name are the code's own.
C16_OnlyTextAndLinkSinks ==
    \A sel \in Selectors :
        \A i \in 1..Len(dom[sel]) : BuiltByCode(dom[sel][i], CodeClassNames)

\* C16: plain-text invariant. Whatever the document's strings hold, markup
\* characters included, the page holds only text nodes and elements created
\* by the code: a string of the document reaches the page as the data of a
\* text node, as a link target, or (the class names of the styling rules) as
\* the class name of a styling span, and is never read as markup.
C16_NeverReadAsMarkup ==
    \A sel \in Selectors :
        \A i \in 1..Len(dom[sel]) :
            BuiltByCode(dom[sel][i], CodeClassNames \cup DocumentClassNames)

C16_Witness ==
    /\ contentData = MarkupSections
    /\ written = Selectors \ {WhoAmIFallbackSel}
    /\ FirstLetterEnabled(stylingRules)
    /\ ItemsShown(KnowHowLeftSel) = <<MarkupText>>
    /\ NodeText(dom[WhoAmISel][1]) = MarkupText
    /\ dom[WhoAmISel][1].kids[1].className = FirstLetterClass
    /\ FirstLetterClass \notin CodeClassNames

----------------------------------------------------------------------------
(* Idempotence and frame of applyStyleToText, checked under StyleSpec *)

\* the children applyStyleToText leaves in a container that was empty
NodesFor(text, rules) ==
    ApplyStyleToText(text, CreateElement("div"), rules).container.kids

\* C17: applyStyleToText is idempotent on a container. It removes all prior
\* children before writing, so after any sequence of calls the container
\* holds exactly the nodes produced for the last call's input, and a call
\* repeating the input of the call before it leaves the same children.
C17_Idempotent ==
    /\ [](StyleCalled => styleBox.kids = NodesFor(styleIn, stylingRules))
    /\ [][(StyleCalled /\ styleIn' = styleIn) => styleBox'.kids = styleBox.kids]_vars

C17_Witness ==
    /\ StyleReturned
    /\ styleIn = <<"a", ",", "a">>
    /\ PunctuationEnabled(stylingRules)
    /\ "," \in PunctuationSet
    /\ ~FirstLetterEnabled(stylingRules)
    /\ Len(styleBox.kids) = 3
    /\ Placeholder \notin Range(styleBox.kids)

\* C18: frame of applyStyleToText. A call changes only the children of the
\* container passed to it: contentData, stylingRules, every other container
\* of the page and the container's own tag and attributes are left as they
\* were.
C18_Frame ==
    [][/\ contentData' = contentData
       /\ stylingRules' = stylingRules
       /\ dom' = dom
       /\ written' = written
       /\ page' = page
       /\ [styleBox' EXCEPT !.kids = styleBox.kids] = styleBox]_vars

C18_Witness ==
    /\ StyleReturned
    /\ FirstLetterEnabled(stylingRules)
    /\ styleBox.kids # InitialElement.kids
    /\ styleBox.kids # <<>>
    /\ [styleBox EXCEPT !.kids = InitialElement.kids] = InitialElement
    /\ dom = InitialDom
    /\ written = {}

----------------------------------------------------------------------------
(* The document over a page load, checked under Spec *)

\* C19: the content document is fetched and parsed exactly once per page
\* load, and after the load nothing modifies contentData or stylingRules.
\* One fetch is issued, when the listener runs; the body is read once, after
\* that fetch; the two fields are assigned by the loader alone, and from the
\* loader's return on (through init's check and the render task with its
\* calls of the renderers and of applyStyleToText) they keep their values.
C19_LoadedOnceThenReadOnly ==
    /\ [](fetches = IF pc = "idle" THEN 0 ELSE 1)
    /\ [][fetches' # fetches => (pc = "idle" /\ pc' = "fetching")]_vars
    /\ [][(pc' = "parsing" /\ pc # "parsing") => pc = "fetching"]_vars
    /\ [][(pc' = "loaded" /\ pc # "loaded") => pc \in {"fetching", "parsing"}]_vars
    /\ [][(pc \in {"loaded", "failed", "ready", "rendered"}) =>
             (/\ pc' \notin {"idle", "fetching", "parsing"}
              /\ contentData' = contentData
              /\ stylingRules' = stylingRules)]_vars

C19_Witness ==
    /\ pc = "rendered"
    /\ fetches = 1
    /\ loadResult = "data"
    /\ Loaded
    /\ Truthy(stylingRules)
    /\ Range(invoked) = SectionNames
    /\ written # {}

----------------------------------------------------------------------------
(* The phone item of the personal-info list, checked under SectionSpec *)

\* the personal-info renderer has filled its list
PersonalInfoRendered == Present("personalInfo") /\ PersonalInfoSel \in written

\* the phones of the document: none when the list is absent
PhonesGiven ==
    IF "phones" \in DOMAIN contentData.personalInfo
    THEN contentData.personalInfo.phones
    ELSE <<>>

\* the list items after the four of name, preferred name, birth date and email
PhoneItems == SubSeq(dom[PersonalInfoSel], 5, Len(dom[PersonalInfoSel]))

\* phone with every whitespace, "." and "-" character taken out
Dialable(phone) == SelectSeq(phone, LAMBDA c : c \notin {" ", "\t", "\n", "\r", ".", "-"})

\* node n is the link of phone: target tel: plus the dialable phone, showing
\* the styled segmentation of the phone as written
IsPhoneLink(n, phone) ==
    /\ n.tag = "a"
    /\ n.href = TelScheme \o Dialable(phone)
    /\ Len(n.kids) = 1
    /\ n.kids[1].kids = NodesFor(phone, stylingRules)
    /\ NodeText(n) = phone

IsPhoneSeparator(n) ==
    /\ n.tag = "span"
    /\ n.className = PunctuationClass
    /\ NodeText(n) = <<"/">>

\* C20: personal-info phones. For a phones list of n >= 1 entries the phone
\* item holds exactly n tel: links in list order and exactly n - 1 styled "/"
\* separators, one between each pair of consecutive links and none after the
\* last; each link's target is the phone with every whitespace, "." and "-"
\* removed, its display text the styled segmentation of the phone as given.
\* With an empty or absent phones list no phone item is rendered.
C20_PhoneLinks ==
    PersonalInfoRendered =>
        LET n == Len(PhonesGiven)
        IN /\ Len(dom[PersonalInfoSel]) >= 4
           /\ Len(PhoneItems) = IF n >= 1 THEN 1 ELSE 0
           /\ n >= 1 =>
                  LET kids == PhoneItems[1].kids
                  IN /\ Len(kids) = 2 * n
                     /\ NodeText(kids[1]) = PhoneLabel \o LabelSuffix
                     /\ \A i \in 1..n : IsPhoneLink(kids[2 * i], PhonesGiven[i])
                     /\ \A i \in 1..(n - 1) : IsPhoneSeparator(kids[2 * i + 1])

C20_Witness ==
    /\ PersonalInfoRendered
    /\ Len(PhonesGiven) = 3
    /\ PhonesGiven[1] # PhonesGiven[2]
    /\ PunctuationEnabled(stylingRules)
    /\ Len(PhoneItems) = 1
    /\ Len(PhoneItems[1].kids) = 6
    /\ PhoneItems[1].kids[2].href # TelScheme \o PhonesGiven[1]
    /\ IsPhoneSeparator(PhoneItems[1].kids[5])

\* a document without phones, and one with an empty list, have no phone item
C20_NoPhonesWitness ==
    /\ PersonalInfoRendered
    /\ "phones" \in DOMAIN contentData.personalInfo
    /\ PhonesGiven = <<>>
    /\ Len(dom[PersonalInfoSel]) = 4

----------------------------------------------------------------------------
(* The who-am-I block, checked under SectionSpec *)

\* the who-am-I renderer has filled its container with the lines it was given
WhoAmIRendered ==
    /\ Present("whoAmI")
    /\ "content" \in DOMAIN contentData.whoAmI
    /\ WhoAmISel \in written

\* node n is the inline block of line: a div shown inline that holds the
\* styled segmentation of the line
IsLineBlock(n, line) ==
    /\ n.tag = "div"
    /\ n.display = "inline"
    /\ n.kids = NodesFor(line, stylingRules)
    /\ NodeText(n) = line

\* C21: who-am-I. For a content list of n lines the container holds exactly
\* n inline blocks in list order, each the styled segmentation of its line,
\* and exactly n - 1 line breaks, one between each pair of consecutive blocks
\* and none after the last.
C21_WhoAmIBlocks ==
    WhoAmIRendered =>
        LET content == contentData.whoAmI.content
            n == Len(content)
            kids == dom[WhoAmISel]
        IN /\ Len(kids) = IF n = 0 THEN 0 ELSE 2 * n - 1
           /\ \A i \in 1..n : IsLineBlock(kids[2 * i - 1], content[i])
           /\ \A i \in 1..(n - 1) : kids[2 * i] = CreateElement("br")

C21_Witness ==
    /\ WhoAmIRendered
    /\ Len(contentData.whoAmI.content) = 3
    /\ contentData.whoAmI.content[2] # contentData.whoAmI.content[3]
    /\ FirstLetterEnabled(stylingRules)
    /\ PunctuationEnabled(stylingRules)
    /\ Len(dom[WhoAmISel]) = 5
    /\ dom[WhoAmISel][4].tag = "br"
    /\ Len(dom[WhoAmISel][5].kids) >= 2

----------------------------------------------------------------------------
(* Repeated calls of a renderer, checked under SectionSpec *)

\* C24: each section renderer clears its container before populating it, so
\* calling the same renderer any number of times on an unchanged document
\* leaves its container with the content of a single call: whatever calls
\* were made, a container written to holds what its section's renderer leaves
\* when called once on the served page, without the served placeholder, and a
\* further call of any renderer leaves every written container as it was.
C24_RenderersIdempotent ==
    /\ [](\A name \in SectionNames :
              \A sel \in TargetsOf(name) \cap written :
                  /\ dom[sel] = RenderedAlone(name).dom[sel]
                  /\ Placeholder \notin Range(dom[sel]))
    /\ [][\A sel \in written : dom'[sel] = dom[sel]]_vars

C24_Witness ==
    /\ contentData = BaseSections
    /\ {ShowcaseSel, ExperienceSel, KnowHowLeftSel, KnowHowRightSel} \subseteq written
    /\ Len(dom[ShowcaseSel]) = Len(contentData.showcase)
    /\ Len(dom[ExperienceSel]) = Len(contentData.experience)
    /\ Len(dom[ShowcaseSel]) = 1
    /\ Len(dom[KnowHowLeftSel]) = 2

----------------------------------------------------------------------------
(* What a caller awaiting init finds, checked under Spec *)

\* init has returned after a successful load: its timer is set and pending
InitReturned == pc = "ready"

\* C30: ContentManager.init completes before any section is rendered. After
\* a successful load, at the moment init returns no section container has
\* been modified and no renderer has been called; containers are modified
\* only afterwards, by the step in which the timer's callback runs.
C30_InitReturnsBeforeRendering ==
    /\ [](InitReturned =>
             /\ Loaded
             /\ written = {}
             /\ invoked = <<>>
             /\ \A sel \in Selectors : dom[sel] = <<Placeholder>>)
    /\ [][(written' # written \/ dom' # dom) => (InitReturned /\ pc' = "rendered")]_vars

C30_Witness ==
    /\ InitReturned
    /\ contentData = BaseSections
    /\ Truthy(stylingRules)
    /\ page = Selectors
    /\ written = {}
    /\ dom[KnowHowLeftSel] = <<Placeholder>>

----------------------------------------------------------------------------
(* The map-key configuration loader AzureMapsConfig                         *)
(* (static/js/azure-maps-config.js, and the earlier version of the same     *)
(* script kept in unnamed/part_002)                                         *)

\* the content renderer as constructed and never started
ContentIdle ==
    /\ pc = "idle"
    /\ ConstructedOn(Selectors)
    /\ stylingRules = Null
    /\ styleBox = InitialElement
    /\ styleIn = NoText
    /\ styleThrew = FALSE

\* null, where a string is expected
NullStr == <<"null">>

\* a string that is neither null (or undefined) nor empty
TruthyKey(k) == k # NullStr /\ k # <<>>

Whitespace == {" ", "\t", "\n", "\r"}

\* s.trim()
RECURSIVE TrimStart(_)
TrimStart(s) ==
    IF s # <<>> /\ Head(s) \in Whitespace THEN TrimStart(Tail(s)) ELSE s

RECURSIVE TrimEnd(_)
TrimEnd(s) ==
    IF s # <<>> /\ s[Len(s)] \in Whitespace THEN TrimEnd(SubSeq(s, 1, Len(s) - 1)) ELSE s

Trim(s) == TrimEnd(TrimStart(s))

\* s.startsWith(p)
StartsWith(s, p) == IsPrefix(p, s)

PlaceholderPrefix == <<"$", "{">>

\* the value env-config.js leaves when the build did not substitute the key
PlaceholderKey == <<"$", "{", "K", "}">>

\* the string 'undefined'
UndefinedWord == <<"u", "n", "d", "e", "f", "i", "n", "e", "d">>

\* values a key source may hold
KeySamples ==
    {<<>>, <<" ">>, PlaceholderKey, UndefinedWord, <<"k", "1">>, <<"k", "2">>}

\* a key source that is absent, or holds a value
SourceValues == KeySamples \cup {NullStr}

\* window.ENV_CONFIG.AZURE_MAPS_SUBSCRIPTION_KEY (NullStr: no ENV_CONFIG or
\* no such property), the data-azure-maps-key attribute (NullStr: no element
\* carries it), whether the host is localhost, whether #map exists
Environments ==
    [envKey : SourceValues, dataAttr : SourceValues, hostLocal : BOOLEAN,
     mapContainer : BOOLEAN]

\* the literal returned by the earlier version's getLocalDevKey
EmbeddedKey == <<"key embedded in part_002">>

\* loadFromDataAttribute()
LoadFromDataAttribute(e) == e.dataAttr

\* isLocalDevelopment()
IsLocalDevelopment(e) == e.hostLocal

\* getLocalDevKey()
GetLocalDevKey == NullStr

\* getApiKey()
GetApiKey(e) ==
    IF /\ TruthyKey(e.envKey)
       /\ ~StartsWith(e.envKey, PlaceholderPrefix)
       /\ e.envKey # UndefinedWord
       /\ Trim(e.envKey) # <<>>
    THEN e.envKey
    ELSE LET key == LoadFromDataAttribute(e)
         IN IF TruthyKey(key) THEN key
            ELSE IF IsLocalDevelopment(e) THEN GetLocalDevKey
            ELSE NullStr

\* getLocalDevKey() of the earlier version
LegacyGetLocalDevKey == EmbeddedKey

\* getApiKey() of the earlier version
LegacyGetApiKey(e) ==
    IF TruthyKey(e.envKey) /\ ~StartsWith(e.envKey, PlaceholderPrefix)
    THEN e.envKey
    ELSE LET key == LoadFromDataAttribute(e)
         IN IF TruthyKey(key) THEN key
            ELSE IF IsLocalDevelopment(e) THEN LegacyGetLocalDevKey
            ELSE NullStr

Variants == {"current", "earlier"}

\* this.getApiKey() of the version of the script the page loads
ResolveKey(variant, e) ==
    IF variant = "current" THEN GetApiKey(e) ELSE LegacyGetApiKey(e)

KeyNotFound == "Azure Maps subscription key not found"
NotInitialized == "AzureMapsConfig not initialized. Call initialize() first."

\* what a call gave its caller: the value returned, or the error thrown
Returned(call, value) == [call |-> call, threw |-> "", value |-> value]
Threw(call, error) == [call |-> call, threw |-> error, value |-> NullStr]

\* new AzureMapsConfig(); returned, attempted and granted record the calls
\* made so far: the last call's outcome, whether initialize was ever called,
\* and the key the first successful initialize returned
NewConfig(variant) ==
    [variant |-> variant, subscriptionKey |-> NullStr, initialized |-> FALSE,
     returned |-> Returned("none", NullStr), attempted |-> FALSE, granted |-> NullStr]

\* initialize() without its "if (this.initialized) return this.subscriptionKey"
Initialize_NoGuard(c, e) ==
    LET key == ResolveKey(c.variant, e)
    IN IF ~TruthyKey(key)
       THEN [c EXCEPT !.subscriptionKey = key,
                      !.returned = Threw("initialize", KeyNotFound)]
       ELSE [c EXCEPT !.subscriptionKey = key, !.initialized = TRUE,
                      !.returned = Returned("initialize", key)]

\* initialize()
Initialize(c, e) ==
    IF c.initialized
    THEN [c EXCEPT !.returned = Returned("initialize", c.subscriptionKey)]
    ELSE LET key == ResolveKey(c.variant, e)
         IN IF ~TruthyKey(key)
            THEN [c EXCEPT !.subscriptionKey = key,
                           !.returned = Threw("initialize", KeyNotFound)]
            ELSE [c EXCEPT !.subscriptionKey = key, !.initialized = TRUE,
                           !.returned = Returned("initialize", key)]

\* getSubscriptionKey() that initializes the instance when it is not yet
GetSubscriptionKey_Resolves(c, e) ==
    IF ~c.initialized
    THEN LET d == Initialize(c, e)
         IN IF d.initialized
            THEN [d EXCEPT !.returned = Returned("getSubscriptionKey", d.subscriptionKey)]
            ELSE [d EXCEPT !.returned = Threw("getSubscriptionKey", NotInitialized)]
    ELSE [c EXCEPT !.returned = Returned("getSubscriptionKey", c.subscriptionKey)]

\* getSubscriptionKey() (the environment is not read)
GetSubscriptionKey(c, e) ==
    IF ~c.initialized
    THEN [c EXCEPT !.returned = Threw("getSubscriptionKey", NotInitialized)]
    ELSE [c EXCEPT !.returned = Returned("getSubscriptionKey", c.subscriptionKey)]

ConfigInit ==
    /\ ContentIdle
    /\ env \in {e \in Environments : ~e.mapContainer}
    /\ \E v \in Variants : config = NewConfig(v)
    /\ integration = NotLoaded
    /\ generator = NotLoaded

\* a call config.initialize()
ConfigInitialize ==
    /\ \E c \in {Initialize(config, env)} :
          config' = [c EXCEPT !.attempted = TRUE,
                              !.granted = IF ~config.initialized /\ c.initialized
                                          THEN c.returned.value ELSE @]
    /\ UNCHANGED <<contentVars, env, integration, generator>>

\* a call config.getSubscriptionKey()
ConfigGetSubscriptionKey ==
    /\ config' = GetSubscriptionKey(config, env)
    /\ UNCHANGED <<contentVars, env, integration, generator>>

\* env-config.js, the build or the developer sets or replaces ENV_CONFIG's key
EnvConfigChanges ==
    /\ \E k \in SourceValues : env' = [env EXCEPT !.envKey = k]
    /\ UNCHANGED <<contentVars, config, integration, generator>>

\* the element carrying data-azure-maps-key is added, removed or rewritten
DataAttributeChanges ==
    /\ \E k \in SourceValues : env' = [env EXCEPT !.dataAttr = k]
    /\ UNCHANGED <<contentVars, config, integration, generator>>

ConfigNext ==
    \/ ConfigInitialize
    \/ ConfigGetSubscriptionKey
    \/ EnvConfigChanges
    \/ DataAttributeChanges

ConfigSpec == ConfigInit /\ [][ConfigNext]_vars

----------------------------------------------------------------------------
(* Properties of AzureMapsConfig, checked under ConfigSpec *)

\* a key source holds a usable value: not blank, not an unreplaced
\* placeholder, not the string 'undefined'
Usable(k) ==
    /\ k # NullStr
    /\ Trim(k) # <<>>
    /\ ~StartsWith(k, PlaceholderPrefix)
    /\ k # UndefinedWord

\* empty, or whitespace only
Blank(k) == Trim(k) = <<>>

\* the step is an initialize call that resolves the key sources
ResolvingCall == ConfigInitialize /\ ~config.initialized

\* C22: map-key resolution tries its sources in a fixed order and the first
\* non-empty one wins. The ENV_CONFIG value is returned whenever it is usable,
\* also when a data attribute is present; only otherwise the data attribute
\* is returned, if non-empty; when neither yields a value the key is reported
\* as not found; and a placeholder, blank or whitespace-only value is never
\* returned as the key.
C22_KeyResolutionOrder ==
    [][(ResolvingCall /\ config.variant = "current") =>
           LET r == config'.returned
           IN /\ Usable(env.envKey) => r = Returned("initialize", env.envKey)
              /\ (~Usable(env.envKey) /\ TruthyKey(env.dataAttr)) =>
                     r = Returned("initialize", env.dataAttr)
              /\ (~Usable(env.envKey) /\ ~TruthyKey(env.dataAttr)) =>
                     r = Threw("initialize", KeyNotFound)
              /\ r.threw = "" =>
                     (~Blank(r.value) /\ ~StartsWith(r.value, PlaceholderPrefix))]_vars

\* C23: no hard-coded key. Every key with which initialize succeeds was held
\* by a configured source when the call was made, and on a local-development
\* host with no configured source initialize fails with the key-not-found
\* error.
C23_NoHardCodedKey ==
    [][ResolvingCall =>
           LET r == config'.returned
           IN /\ r.threw = "" => r.value \in {env.envKey, env.dataAttr}
              /\ (env.hostLocal /\ env.envKey = NullStr /\ env.dataAttr = NullStr) =>
                     r = Threw("initialize", KeyNotFound)]_vars

\* C25: the initialization-once guard. In every state initialized = true
\* implies that subscriptionKey is a non-empty key, the one the successful
\* initialize returned; once a call has succeeded every later initialize call
\* returns that key and changes nothing, whatever the key sources hold by
\* then; a failed initialize leaves initialized = false, and the next call
\* resolves the sources as they are at that call.
C25_InitializeOnce ==
    /\ [](config.initialized =>
             /\ TruthyKey(config.subscriptionKey)
             /\ config.subscriptionKey = config.granted)
    /\ [][config.initialized =>
             /\ config'.initialized
             /\ config'.subscriptionKey = config.subscriptionKey
             /\ ConfigInitialize =>
                    config'.returned = Returned("initialize", config.subscriptionKey)]_vars
    /\ [][ResolvingCall =>
             /\ config'.returned.threw # "" => ~config'.initialized
             /\ Usable(env.envKey) =>
                    /\ config'.initialized
                    /\ config'.returned = Returned("initialize", env.envKey)]_vars

C25_Witness ==
    /\ config.initialized
    /\ config.returned = Returned("initialize", config.subscriptionKey)
    /\ config.subscriptionKey = <<"k", "1">>
    /\ env.envKey = <<"k", "2">>
    /\ env.dataAttr = NullStr

\* the step is a getSubscriptionKey call
GetKeyCall == ConfigGetSubscriptionKey

\* C26: getSubscriptionKey raises the not-initialized error exactly when no
\* initialize call has succeeded on the instance so far (also after a failed
\* one), and otherwise returns the key the successful initialize returned; in
\* both cases it leaves the instance as it was.
C26_GetSubscriptionKey ==
    [][GetKeyCall =>
           /\ config.granted = NullStr =>
                  config'.returned = Threw("getSubscriptionKey", NotInitialized)
           /\ config.granted # NullStr =>
                  config'.returned = Returned("getSubscriptionKey", config.granted)
           /\ [config' EXCEPT !.returned = config.returned] = config]_vars

\* after a failed initialize, getSubscriptionKey has raised the error
C26_Witness ==
    /\ config.attempted
    /\ ~config.initialized
    /\ config.granted = NullStr
    /\ config.returned = Threw("getSubscriptionKey", NotInitialized)
    /\ Usable(env.envKey)

----------------------------------------------------------------------------
(* The map integration AzureMapsIntegration (unnamed/part_000)              *)

MaxWaitTime == 5000
CheckInterval == 100

\* the test at the head of each round of waitForEnvConfig
EnvReady(e) == TruthyKey(e.envKey) /\ ~StartsWith(e.envKey, PlaceholderPrefix)

\* getFromEnvConfig()
GetFromEnvConfig(e) ==
    IF /\ TruthyKey(e.envKey)
       /\ ~StartsWith(e.envKey, PlaceholderPrefix)
       /\ e.envKey # UndefinedWord
       /\ Trim(e.envKey) # <<>>
    THEN e.envKey
    ELSE NullStr

\* getFromDataAttribute()
GetFromDataAttribute(e) ==
    IF TruthyKey(e.dataAttr) /\ Trim(e.dataAttr) # <<>> THEN e.dataAttr ELSE NullStr

\* a || b
OrElse(a, b) == IF TruthyKey(a) THEN a ELSE b

\* the message of the error loadApiKey throws
LoadKeyError(e) ==
    IF IsLocalDevelopment(e)
    THEN "Azure Maps key not found. Local development options: 1) Use dev.ps1 script, or 2) Add AZURE_MAPS_SUBSCRIPTION_KEY to .env file and run python directly"
    ELSE "Azure Maps key not found. Ensure GitHub Secret AZURE_MAPS_SUBSCRIPTION_KEY is configured and GitHub Actions workflow is running"

NoKeyForMap == "Cannot initialize map without subscription key"
MapFailedToLoad == "Map failed to load"
\* whatever the map library throws from new atlas.Map or from the calls of
\* onMapReady
LibraryError == "error thrown by the map library"

\* the markup showMapError writes into the container
ErrorPlaceholder == "Map temporarily unavailable"

\* new AzureMapsIntegration(); waitTime is the local of waitForEnvConfig,
\* waited tells how that call returned, controls whether onMapReady has set
\* up the marker and the controls, mapHtml what showMapError wrote, threw the
\* error initialize rethrew, event the last map event delivered
NewIntegration ==
    [pc |-> "constructed", map |-> "none", subscriptionKey |-> NullStr,
     initialized |-> FALSE, waitTime |-> 0, waited |-> "", controls |-> FALSE,
     mapHtml |-> "", threw |-> "", event |-> "none"]

\* showMapError()
ShowMapError(i, e) ==
    IF e.mapContainer THEN [i EXCEPT !.mapHtml = ErrorPlaceholder] ELSE i

\* the catch block of initialize(): show the placeholder, rethrow
FailInitialize(i, e, error) ==
    [ShowMapError(i, e) EXCEPT !.pc = "failed", !.threw = error]

\* initializeMap() that resolves as soon as the map object exists
InitializeMap_NoWait(i, e, libraryThrows) ==
    [i EXCEPT !.map = "created", !.initialized = TRUE, !.pc = "done"]

\* initializeMap() up to the promise it returns; an exception ends in the
\* catch block of initialize()
InitializeMap(i, e, libraryThrows) ==
    IF ~TruthyKey(i.subscriptionKey) THEN FailInitialize(i, e, NoKeyForMap)
    ELSE IF libraryThrows THEN FailInitialize(i, e, LibraryError)
    ELSE [i EXCEPT !.map = "created", !.pc = "mapping"]

\* initialize() from the return of waitForEnvConfig on: the rest of
\* loadApiKey, then the map when the container exists
ResumeInitialize(i, e, libraryThrows) ==
    LET key == OrElse(GetFromEnvConfig(e), GetFromDataAttribute(e))
        j == [i EXCEPT !.subscriptionKey = key, !.waitTime = 0]
    IN IF ~TruthyKey(key) THEN FailInitialize(j, e, LoadKeyError(e))
       ELSE IF e.mapContainer THEN InitializeMap(j, e, libraryThrows)
       ELSE [j EXCEPT !.initialized = TRUE, !.pc = "done"]

\* one round of the loop of waitForEnvConfig, from the loop test to the
\* next await or to the return
WaitForEnvConfig(i, e, libraryThrows) ==
    IF i.waitTime < MaxWaitTime
    THEN IF EnvReady(e)
         THEN ResumeInitialize([i EXCEPT !.waited = "ready"], e, libraryThrows)
         ELSE [i EXCEPT !.pc = "waiting"]
    ELSE ResumeInitialize([i EXCEPT !.waited = "timeout"], e, libraryThrows)

\* a wait that does not count the time it slept
Slept_NoAdvance(i) == i

\* the timer of a round has fired: waitTime += checkInterval
Slept(i) == [i EXCEPT !.waitTime = @ + CheckInterval]

\* onMapReady(), inside the 'ready' handler
OnMapReady(i, e, libraryThrows) ==
    IF libraryThrows
    THEN IF i.pc = "mapping" THEN FailInitialize(i, e, LibraryError) ELSE i
    ELSE IF i.pc = "mapping"
         THEN [i EXCEPT !.controls = TRUE, !.initialized = TRUE, !.pc = "done"]
         ELSE [i EXCEPT !.controls = TRUE]

IntegrationInit ==
    /\ ContentIdle
    /\ env \in Environments
    /\ config = NotLoaded
    /\ integration = NewIntegration
    /\ generator = NotLoaded

\* the DOMContentLoaded listener calls initialize()
IntegrationInitialize ==
    /\ integration.pc = "constructed"
    /\ \E libraryThrows \in BOOLEAN :
          integration' = WaitForEnvConfig(integration, env, libraryThrows)
    /\ UNCHANGED <<contentVars, env, config, generator>>

\* the timer a round of waitForEnvConfig awaits fires
WaitTimerFires ==
    /\ integration.pc = "waiting"
    /\ \E libraryThrows \in BOOLEAN :
          integration' = WaitForEnvConfig(Slept(integration), env, libraryThrows)
    /\ UNCHANGED <<contentVars, env, config, generator>>

\* the map emits 'ready'
MapReady ==
    /\ integration.pc \in {"mapping", "done", "failed"}
    /\ integration.map = "created"
    /\ \E libraryThrows \in BOOLEAN :
          integration' =
              [OnMapReady(integration, env, libraryThrows) EXCEPT !.event = "ready"]
    /\ UNCHANGED <<contentVars, env, config, generator>>

\* the map emits 'error'
MapError ==
    /\ integration.pc \in {"mapping", "done", "failed"}
    /\ integration.map = "created"
    /\ integration' =
          [(IF integration.pc = "mapping"
            THEN FailInitialize(integration, env, MapFailedToLoad)
            ELSE integration) EXCEPT !.event = "error"]
    /\ UNCHANGED <<contentVars, env, config, generator>>

IntegrationNext ==
    \/ IntegrationInitialize
    \/ WaitTimerFires
    \/ MapReady
    \/ MapError
    \/ EnvConfigChanges
    \/ DataAttributeChanges

IntegrationSpec == IntegrationInit /\ [][IntegrationNext]_vars

\* a timer that was set fires
IntegrationFairSpec == IntegrationSpec /\ WF_vars(WaitTimerFires)

----------------------------------------------------------------------------
(* Properties of AzureMapsIntegration *)

\* the step runs a round of waitForEnvConfig
WaitRound == IntegrationInitialize \/ WaitTimerFires

\* the number of times a waiting call has tested ENV_CONFIG
PollsMade == integration.waitTime \div CheckInterval + 1

KeyNotFoundErrors == {LoadKeyError(e) : e \in Environments}

\* C27: waitForEnvConfig always terminates. While it waits it has slept a
\* multiple of 100 ms below 5000 ms; a round returns when ENV_CONFIG holds a
\* non-empty value that is not a placeholder and sleeps again otherwise, until
\* 50 polls have been made, when it returns without an error; on its return
\* loadApiKey either holds a key taken from one of the sources or has thrown
\* the key-not-found error; and every waiting call eventually stops waiting,
\* given that a timer that was set fires.
C27_WaitTerminates ==
    /\ [](integration.pc = "waiting" =>
             /\ integration.waitTime \in 0..4900
             /\ integration.waitTime % 100 = 0
             /\ PollsMade <= 50)
    /\ [][WaitRound =>
             LET t == IF integration.pc = "constructed" THEN 0
                      ELSE integration.waitTime + 100
                 after == integration'
             IN /\ (t < 5000 /\ EnvReady(env)) => after.waited = "ready"
                /\ (t < 5000 /\ ~EnvReady(env)) =>
                       (after.pc = "waiting" /\ after.waitTime = t)
                /\ t >= 5000 => (after.waited = "timeout" /\ PollsMade = 50)
                /\ after.pc # "waiting" =>
                       \/ /\ TruthyKey(after.subscriptionKey)
                          /\ after.subscriptionKey \in {env.envKey, env.dataAttr}
                          /\ after.threw \notin KeyNotFoundErrors
                       \/ /\ after.subscriptionKey = NullStr
                          /\ after.pc = "failed"
                          /\ after.threw = LoadKeyError(env)]_vars
    /\ (integration.pc = "waiting") ~> (integration.pc # "waiting")

\* the wait timed out after 50 polls and the key came from the data attribute
C27_Witness ==
    /\ integration.waited = "timeout"
    /\ integration.subscriptionKey = <<"k", "1">>
    /\ ~EnvReady(env)

\* initialize sets initialized only after a key was loaded and, when a map
\* container exists, the map was created and its 'ready' event handled
\* without error; with a key and no container it succeeds without creating a
\* map; a missing key and a map 'error' event during the wait end in the
\* failed outcome, which is final; the wait for the map ends only with one of
\* the two events
InitializeCompletion ==
    /\ [](integration.initialized =>
             /\ TruthyKey(integration.subscriptionKey)
             /\ integration.pc = "done"
             /\ integration.threw = ""
             /\ IF env.mapContainer
                THEN integration.map = "created" /\ integration.controls
                ELSE integration.map = "none")
    /\ [][(integration.pc = "failed") => (integration'.pc = "failed")]_vars
    /\ [][(WaitRound /\ integration'.pc # "waiting") =>
             /\ integration'.subscriptionKey = NullStr =>
                    (integration'.pc = "failed" /\ integration'.threw = LoadKeyError(env))
             /\ (integration'.subscriptionKey # NullStr /\ ~env.mapContainer) =>
                    integration'.initialized]_vars
    /\ [][(MapError /\ integration.pc = "mapping") =>
             /\ integration'.pc = "failed"
             /\ integration'.threw = MapFailedToLoad]_vars
    /\ [][(integration.pc = "mapping" /\ integration'.pc # "mapping") =>
             (MapReady \/ MapError)]_vars

\* C28 as stated: initialize sets initialized only after a key was loaded
\* and, with a map container, the 'ready' event was handled without error
\* (with no container it succeeds without a map); on a missing key or a map
\* 'error' event the error placeholder is shown, the error rethrown and
\* initialized remains false; with neither event initialize never completes.
C28_FailureShowsPlaceholder ==
    /\ InitializeCompletion
    /\ [](integration.pc = "failed" =>
             /\ ~integration.initialized
             /\ integration.threw # ""
             /\ integration.mapHtml = ErrorPlaceholder)

\* C28, amended: as above, but a failed initialize shows the error
\* placeholder only on a page that has the map container; on a page without
\* it a missing key makes initialize rethrow with nothing shown.
C28_InitializeOutcome ==
    /\ InitializeCompletion
    /\ [](integration.pc = "failed" =>
             /\ ~integration.initialized
             /\ integration.threw # ""
             /\ integration.mapHtml = IF env.mapContainer THEN ErrorPlaceholder ELSE "")

\* initialize completed on a page with a map container
C28_Witness ==
    /\ integration.initialized
    /\ env.mapContainer
    /\ integration.controls
    /\ integration.waited = "timeout"

----------------------------------------------------------------------------
(* LanguageDataGenerator.fetchLanguageData                                  *)
(* (static/js/generate-language-data.js; the same method is repeated in     *)
(* static/js/content-manager.js)                                            *)

MaxRepos == 2

RepoNames == {"blog", "notes", "tools"}
Languages == {"JavaScript", "Python"}
ByteSamples == {0, 1, 2}

\* {}
EmptyObject == [l \in {} |-> 0]

\* the lists fetchRepositories may return: the names of one owner's
\* repositories are distinct
RepoLists ==
    {rs \in SeqsUpTo(RepoNames, MaxRepos) :
        \A i, j \in 1..Len(rs) : rs[i] = rs[j] => i = j}

\* the bodies the languages request may be answered with
LanguageResponses ==
    UNION {[ls -> ByteSamples] : ls \in SUBSET Languages}

\* the forEach over Object.entries(response.data) that always assigns
Aggregate_Overwrites(languageData, data) ==
    [l \in DOMAIN languageData \cup DOMAIN data |->
        IF l \in DOMAIN data THEN data[l] ELSE languageData[l]]

\* the forEach over Object.entries(response.data)
Aggregate(languageData, data) ==
    [l \in DOMAIN languageData \cup DOMAIN data |->
        IF l \in DOMAIN data
        THEN IF l \in DOMAIN languageData /\ languageData[l] # 0
             THEN languageData[l] + data[l]
             ELSE data[l]
        ELSE languageData[l]]

\* obj[name] = value
WithProperty(obj, name, value) ==
    [k \in DOMAIN obj \cup {name} |-> IF k = name THEN value ELSE obj[k]]

\* a LanguageDataGenerator whose fetchLanguageData is about to be called
\* with repos; requested, served and failed record the requests made and how
\* each was answered
NewGenerator(repos) ==
    [pc |-> "constructed", repos |-> repos, index |-> 0,
     languageData |-> EmptyObject, repoLanguages |-> EmptyObject,
     inFlight |-> {}, requested |-> <<>>, served |-> EmptyObject, failed |-> {}]

\* the head of the for loop: request the languages of the next repository,
\* or return { aggregated, byRepo }
NextRepo(g) ==
    IF g.index < Len(g.repos)
    THEN LET name == g.repos[g.index + 1]
         IN [g EXCEPT !.pc = "awaiting", !.index = @ + 1, !.inFlight = @ \cup {name},
                      !.requested = Append(@, name)]
    ELSE [g EXCEPT !.pc = "returned"]

\* a catch block that gives up on the remaining repositories
Caught_Aborts(g) == [g EXCEPT !.pc = "returned"]

\* the catch block: log, go on with the loop
Caught(g) == NextRepo(g)

LanguageInit ==
    /\ ContentIdle
    /\ env \in {e \in Environments : e.envKey = NullStr /\ e.dataAttr = NullStr /\ ~e.mapContainer}
    /\ config = NotLoaded
    /\ integration = NotLoaded
    /\ \E rs \in RepoLists : generator = NewGenerator(rs)

\* generate() calls fetchLanguageData(repos)
FetchLanguageData ==
    /\ generator.pc = "constructed"
    /\ generator' = NextRepo(generator)
    /\ UNCHANGED <<contentVars, env, config, integration>>

\* the request in flight is answered with a body
LanguagesResponse ==
    /\ generator.pc = "awaiting"
    /\ \E data \in LanguageResponses :
          LET name == generator.repos[generator.index]
          IN generator' =
                 [generator EXCEPT
                     !.pc = "delaying",
                     !.inFlight = @ \ {name},
                     !.repoLanguages = WithProperty(@, name, data),
                     !.languageData = Aggregate(@, data),
                     !.served = WithProperty(@, name, data)]
    /\ UNCHANGED <<contentVars, env, config, integration>>

\* the request in flight is rejected
LanguagesRequestFails ==
    /\ generator.pc = "awaiting"
    /\ LET name == generator.repos[generator.index]
       IN generator' = Caught([generator EXCEPT !.inFlight = @ \ {name},
                                               !.failed = @ \cup {name}])
    /\ UNCHANGED <<contentVars, env, config, integration>>

\* the 100 ms delay after a served request is over
DelayTimerFires ==
    /\ generator.pc = "delaying"
    /\ generator' = NextRepo(generator)
    /\ UNCHANGED <<contentVars, env, config, integration>>

LanguageNext ==
    \/ FetchLanguageData
    \/ LanguagesResponse
    \/ LanguagesRequestFails
    \/ DelayTimerFires

LanguageSpec == LanguageInit /\ [][LanguageNext]_vars

----------------------------------------------------------------------------
(* Properties of fetchLanguageData *)

RECURSIVE BytesOver(_, _, _)
\* the bytes of one language summed over the bodies served for the
\* repositories in names
BytesOver(names, served, language) ==
    IF names = {} THEN 0
    ELSE LET n == CHOOSE x \in names : TRUE
         IN (IF language \in DOMAIN served[n] THEN served[n][language] ELSE 0)
            + BytesOver(names \ {n}, served, language)

\* C29: fetchLanguageData issues the requests one after another: never more
\* than one is in flight, they are made in the order of repos, and each is
\* made only after every earlier one was answered. A failed request does not
\* abort the others: at the return every repository was requested, byRepo
\* holds exactly the repositories whose request succeeded, each with the body
\* served, and for every language the aggregated count is the sum of its
\* bytes over those repositories (a language none of them reports is absent).
C29_SequentialAndIsolated ==
    /\ Cardinality(generator.inFlight) <= 1
    /\ Len(generator.requested) <= Len(generator.repos)
    /\ generator.requested = SubSeq(generator.repos, 1, Len(generator.requested))
    /\ DOMAIN generator.served \cup generator.failed \cup generator.inFlight
           = Range(generator.requested)
    /\ generator.pc = "returned" =>
           /\ generator.requested = generator.repos
           /\ generator.inFlight = {}
           /\ DOMAIN generator.repoLanguages = Range(generator.repos) \ generator.failed
           /\ generator.repoLanguages = generator.served
           /\ DOMAIN generator.languageData =
                  UNION {DOMAIN generator.served[n] : n \in DOMAIN generator.served}
           /\ \A l \in Languages :
                  (IF l \in DOMAIN generator.languageData
                   THEN generator.languageData[l] ELSE 0)
                      = BytesOver(DOMAIN generator.served, generator.served, l)

\* the first request failed, the second was served, and the call returned
C29_Witness ==
    /\ generator.pc = "returned"
    /\ Len(generator.repos) = 2
    /\ generator.failed = {generator.repos[1]}
    /\ DOMAIN generator.repoLanguages = {generator.repos[2]}
    /\ "Python" \in DOMAIN generator.languageData
    /\ generator.languageData["Python"] = 2

============================================================================
